---- MODULE Spec2Model ----
(***************************************************************************)
(* Model of the conflict and feasibility analysis of the department        *)
(* schedule planner (src/App.tsx): minutesFromTime, sectionsOverlap and    *)
(* computeConflicts.                                                       *)
(*                                                                         *)
(* Representation.                                                         *)
(*  - A time string "HH:MM" is the pair <<HH, MM>> of the numbers that     *)
(*    time.split(":").map(Number) yields.                                  *)
(*  - Room identifiers and room names are strings that the code cuts at    *)
(*    "__"; they are sequences of pieces in which every "_" is a piece of  *)
(*    its own ("a__b" is <<"a","_","_","b">>, "SC-312" is <<"SC-312">>).   *)
(*    A day is one token ("Mon") and, inside a room+day key, one element   *)
(*    of the key.                                                          *)
(*  - An optional roomId is a record field that is present or absent.      *)
(*  - The report's entries hold references to the section and block        *)
(*    objects of the input.  A reference to a section is its index in the  *)
(*    sections argument (the value of the sectionsForScenario hook), a     *)
(*    reference to a block is the pair                                     *)
(*    <<section index, block index>>.                                      *)
(***************************************************************************)
EXTENDS Integers, Sequences, FiniteSets, TLC

\* scenarios .. labBufferMinutes: the state of App.  sectionsForScenario,
\* conflicts and conflictSectionIds: the values of the three useMemo hooks; pc
\* tells whether conflicts has been computed from the current state ("done"),
\* and whether it has been computed a second time ("again").  hydrated: the
\* hydrated state of App; storage: the item of window.localStorage under
\* STORAGE_KEY.
VARIABLES scenarios, sections, activeScenarioId, instructors, rooms, pathways,
          labBufferMinutes, sectionsForScenario, conflicts, conflictSectionIds,
          pc, hydrated, storage

vars == <<scenarios, sections, activeScenarioId, instructors, rooms, pathways,
          labBufferMinutes, sectionsForScenario, conflicts, conflictSectionIds,
          pc, hydrated, storage>>

(***************************************************************************)
(* Pure helpers of src/App.tsx                                             *)
(***************************************************************************)

minutesFromTime(time) == time[1] * 60 + time[2]

\* Faulty variant: the comparison with <= for <, under which touching blocks overlap.
SectionBlocksOverlapClosed(blockA, blockB) ==
    /\ minutesFromTime(blockA.startTime) <= minutesFromTime(blockB.endTime)
    /\ minutesFromTime(blockB.startTime) <= minutesFromTime(blockA.endTime)

\* The overlap comparison of sectionsOverlap (App.tsx 594-597).
SectionBlocksOverlap(blockA, blockB) ==
    /\ minutesFromTime(blockA.startTime) < minutesFromTime(blockB.endTime)
    /\ minutesFromTime(blockB.startTime) < minutesFromTime(blockA.endTime)

\* for (blockA of a.meetingBlocks) for (blockB of b.meetingBlocks): a day test,
\* then the comparison; true at the first hit.
sectionsOverlap(a, b) ==
    IF Len(a.meetingBlocks) = 0 \/ Len(b.meetingBlocks) = 0
    THEN FALSE
    ELSE \E i \in 1..Len(a.meetingBlocks) : \E j \in 1..Len(b.meetingBlocks) :
            /\ a.meetingBlocks[i].day = b.meetingBlocks[j].day
            /\ SectionBlocksOverlap(a.meetingBlocks[i], b.meetingBlocks[j])

(***************************************************************************)
(* computeConflicts: the two indexes                                       *)
(***************************************************************************)

\* Faulty variant: only an absent roomId counts as no room.
HasRoomField(block) == "roomId" \in DOMAIN block

\* !block.roomId is true for an absent roomId and for the empty string.
HasRoom(block) == "roomId" \in DOMAIN block /\ block.roomId # <<>>

\* `${block.roomId}__${block.day}`
RoomKey(block) == block.roomId \o <<"_", "_">> \o <<block.day>>

\* sections.forEach(section => section.meetingBlocks.forEach(block => ...)):
\* the { section, block } pairs in visiting order.
RECURSIVE SlotsFrom(_, _, _)
SlotsFrom(secs, si, bi) ==
    IF si > Len(secs) THEN <<>>
    ELSE IF bi > Len(secs[si].meetingBlocks) THEN SlotsFrom(secs, si + 1, 1)
    ELSE <<[section |-> si, block |-> <<si, bi>>]>> \o SlotsFrom(secs, si, bi + 1)

SlotBlock(secs, slot) == secs[slot.block[1]].meetingBlocks[slot.block[2]]

SlotSection(secs, slot) == secs[slot.section]

\* const slots = record[key] || []; slots.push(slot); record[key] = slots.
\* The Record is a map over its own keys, which it keeps in insertion order
\* (keys that are numerals or names of Object.prototype members, such as
\* "constructor", are not among the identifiers of the inputs below).
PushSlot(groups, key, slot) ==
    IF \E g \in 1..Len(groups) : groups[g].key = key
    THEN [g \in 1..Len(groups) |->
            IF groups[g].key = key
            THEN [groups[g] EXCEPT !.slots = Append(@, slot)]
            ELSE groups[g]]
    ELSE Append(groups, [key |-> key, slots |-> <<slot>>])

RECURSIVE BuildInstructorSlots(_, _, _, _)
BuildInstructorSlots(secs, all, n, groups) ==
    IF n > Len(all) THEN groups
    ELSE BuildInstructorSlots(secs, all, n + 1,
            PushSlot(groups, SlotSection(secs, all[n]).instructorId, all[n]))

RECURSIVE BuildRoomSlots(_, _, _, _)
BuildRoomSlots(secs, all, n, groups) ==
    IF n > Len(all) THEN groups
    ELSE IF ~HasRoom(SlotBlock(secs, all[n]))
         THEN BuildRoomSlots(secs, all, n + 1, groups)
         ELSE BuildRoomSlots(secs, all, n + 1,
                PushSlot(groups, RoomKey(SlotBlock(secs, all[n])), all[n]))

\* new Map(list.map(x => [x.id, x])).get(id): the last element with that id,
\* as a sequence of length 0 (undefined) or 1.
MapGet(list, id) ==
    LET hits == {i \in 1..Len(list) : list[i].id = id}
    IN  IF hits = {} THEN <<>>
        ELSE <<list[CHOOSE i \in hits : \A k \in hits : k <= i]>>

\* for (i = 0; i < n; i++) for (j = i + 1; j < n; j++): the index pairs in
\* visiting order.
RECURSIVE IndexPairs(_, _, _)
IndexPairs(n, i, j) ==
    IF i >= n THEN <<>>
    ELSE IF j > n THEN IndexPairs(n, i + 1, i + 2)
    ELSE <<<<i, j>>>> \o IndexPairs(n, i, j + 1)

RECURSIVE Concat(_)
Concat(seqs) == IF seqs = <<>> THEN <<>> ELSE Head(seqs) \o Concat(Tail(seqs))

(***************************************************************************)
(* computeConflicts: instructor conflicts (App.tsx 637-659)                *)
(***************************************************************************)

\* Faulty variant: the comparison with <= for <, under which touching blocks overlap.
InstructorBlocksOverlapClosed(blockA, blockB) ==
    /\ minutesFromTime(blockA.startTime) <= minutesFromTime(blockB.endTime)
    /\ minutesFromTime(blockB.startTime) <= minutesFromTime(blockA.endTime)

\* Faulty variant: the comparison asks only whether blockB starts inside
\* blockA.
InstructorBlocksOverlapOneSided(blockA, blockB) ==
    /\ minutesFromTime(blockA.startTime) <= minutesFromTime(blockB.startTime)
    /\ minutesFromTime(blockB.startTime) < minutesFromTime(blockA.endTime)

\* The overlap comparison of the instructor loop (App.tsx 644-647).
InstructorBlocksOverlap(blockA, blockB) ==
    /\ minutesFromTime(blockA.startTime) < minutesFromTime(blockB.endTime)
    /\ minutesFromTime(blockB.startTime) < minutesFromTime(blockA.endTime)

\* instructorMap.get(instructorId)?.name || instructorId
InstructorName(instrs, instructorId) ==
    LET inst == MapGet(instrs, instructorId)
    IN  IF inst # <<>> /\ inst[1].name # "" THEN inst[1].name ELSE instructorId

\* Faulty variant: two blocks of the same section are not compared.
InstructorGroupConflictsAcrossSections(secs, instrs, group) ==
    LET slots == group.slots
        hit(p) == /\ slots[p[1]].section # slots[p[2]].section
                  /\ SlotBlock(secs, slots[p[1]]).day = SlotBlock(secs, slots[p[2]]).day
                  /\ InstructorBlocksOverlap(SlotBlock(secs, slots[p[1]]),
                                             SlotBlock(secs, slots[p[2]]))
        found == SelectSeq(IndexPairs(Len(slots), 1, 2), hit)
    IN  [k \in 1..Len(found) |->
            [instructorId   |-> group.key,
             instructorName |-> InstructorName(instrs, group.key),
             sectionA       |-> slots[found[k][1]].section,
             sectionB       |-> slots[found[k][2]].section,
             blockA         |-> slots[found[k][1]].block,
             blockB         |-> slots[found[k][2]].block]]

InstructorGroupConflicts(secs, instrs, group) ==
    LET slots == group.slots
        hit(p) == /\ SlotBlock(secs, slots[p[1]]).day = SlotBlock(secs, slots[p[2]]).day
                  /\ InstructorBlocksOverlap(SlotBlock(secs, slots[p[1]]),
                                             SlotBlock(secs, slots[p[2]]))
        found == SelectSeq(IndexPairs(Len(slots), 1, 2), hit)
    IN  [k \in 1..Len(found) |->
            [instructorId   |-> group.key,
             instructorName |-> InstructorName(instrs, group.key),
             sectionA       |-> slots[found[k][1]].section,
             sectionB       |-> slots[found[k][2]].section,
             blockA         |-> slots[found[k][1]].block,
             blockB         |-> slots[found[k][2]].block]]

InstructorConflictsOf(secs, instrs) ==
    LET groups == BuildInstructorSlots(secs, SlotsFrom(secs, 1, 1), 1, <<>>)
    IN  Concat([g \in 1..Len(groups) |->
                    InstructorGroupConflicts(secs, instrs, groups[g])])

(***************************************************************************)
(* computeConflicts: room conflicts and lab buffer (App.tsx 661-713)       *)
(***************************************************************************)

\* key.split("__"): the pieces between the non-overlapping occurrences of
\* "__", found left to right.
RECURSIVE SplitKey(_, _, _)
SplitKey(key, i, piece) ==
    IF i > Len(key) THEN <<piece>>
    ELSE IF i < Len(key) /\ key[i] = "_" /\ key[i + 1] = "_"
         THEN <<piece>> \o SplitKey(key, i + 2, <<>>)
         ELSE SplitKey(key, i + 1, Append(piece, key[i]))

\* Faulty variant: a slot is placed before the slots that start at the same
\* minute, so equal starts come out in the reverse of the input order.
InsertSlotBeforeTies(secs, sorted, slot) ==
    LET start(s) == minutesFromTime(SlotBlock(secs, s).startTime)
        before == {k \in 1..Len(sorted) : start(sorted[k]) < start(slot)}
        n == Cardinality(before)
    IN  SubSeq(sorted, 1, n) \o <<slot>> \o SubSeq(sorted, n + 1, Len(sorted))

\* slots.sort((a, b) => start(a) - start(b)): Array.prototype.sort is stable.
InsertSlot(secs, sorted, slot) ==
    LET start(s) == minutesFromTime(SlotBlock(secs, s).startTime)
        before == {k \in 1..Len(sorted) : start(sorted[k]) <= start(slot)}
        n == Cardinality(before)
    IN  SubSeq(sorted, 1, n) \o <<slot>> \o SubSeq(sorted, n + 1, Len(sorted))

RECURSIVE SortSlots(_, _, _, _)
SortSlots(secs, slots, n, sorted) ==
    IF n > Len(slots) THEN sorted
    ELSE SortSlots(secs, slots, n + 1, InsertSlot(secs, sorted, slots[n]))

\* The overlap comparison of the room loop (App.tsx 675-678).
RoomBlocksOverlap(blockA, blockB) ==
    /\ minutesFromTime(blockA.startTime) < minutesFromTime(blockB.endTime)
    /\ minutesFromTime(blockB.startTime) < minutesFromTime(blockA.endTime)

\* Faulty variant: only the neighbours in start-time order are compared.
RoomPairsAdjacent(n) == [i \in 1..(IF n > 0 THEN n - 1 ELSE 0) |-> <<i, i + 1>>]

\* The index pairs the room loop compares.
RoomPairs(n) == IndexPairs(n, 1, 2)

\* Faulty variant: the name is followed by the room type, as in the room
\* list of the page.
RoomNameWithType(room, roomId) ==
    IF room # <<>> /\ room[1].name # <<>>
    THEN room[1].name \o <<" (", room[1].roomType, ")">>
    ELSE roomId

\* room?.name || roomId
RoomName(room, roomId) ==
    IF room # <<>> /\ room[1].name # <<>> THEN room[1].name ELSE roomId

RoomGroupConflicts(secs, rms, group) ==
    LET parts  == SplitKey(group.key, 1, <<>>)
        roomId == parts[1]
        day    == parts[2]
        room   == MapGet(rms, roomId)
        slots  == SortSlots(secs, group.slots, 1, <<>>)
        hit(p) == RoomBlocksOverlap(SlotBlock(secs, slots[p[1]]),
                                    SlotBlock(secs, slots[p[2]]))
        found  == SelectSeq(RoomPairs(Len(slots)), hit)
    IN  [k \in 1..Len(found) |->
            [roomId   |-> roomId,
             roomName |-> RoomName(room, roomId),
             day      |-> day,
             sectionA |-> slots[found[k][1]].section,
             sectionB |-> slots[found[k][2]].section,
             blockA   |-> slots[found[k][1]].block,
             blockB   |-> slots[found[k][2]].block]]

\* gap = start(next) - end(current)
LabGap(current, next) ==
    minutesFromTime(next.startTime) - minutesFromTime(current.endTime)

\* The positions i of the lab loop: for (i = 0; i < slots.length - 1; i++).
LabPositions(n) == [i \in 1..(IF n > 0 THEN n - 1 ELSE 0) |-> i]

\* room?.roomType === "lab"
IsLabRoom(room) == room # <<>> /\ room[1].roomType = "lab"

LabGroupConflicts(secs, rms, buffer, group) ==
    LET parts  == SplitKey(group.key, 1, <<>>)
        roomId == parts[1]
        day    == parts[2]
        room   == MapGet(rms, roomId)
        slots  == SortSlots(secs, group.slots, 1, <<>>)
        gapAt(i) == LabGap(SlotBlock(secs, slots[i]), SlotBlock(secs, slots[i + 1]))
        hit(i) == gapAt(i) < buffer
        found  == SelectSeq(LabPositions(Len(slots)), hit)
    IN  IF ~IsLabRoom(room) THEN <<>>
        ELSE [k \in 1..Len(found) |->
                [roomId        |-> roomId,
                 roomName      |-> room[1].name,
                 day           |-> day,
                 firstSection  |-> slots[found[k]].section,
                 secondSection |-> slots[found[k] + 1].section,
                 firstBlock    |-> slots[found[k]].block,
                 secondBlock   |-> slots[found[k] + 1].block,
                 gapMinutes    |-> gapAt(found[k])]]

RoomGroups(secs) == BuildRoomSlots(secs, SlotsFrom(secs, 1, 1), 1, <<>>)

RoomConflictsOf(secs, rms) ==
    LET groups == RoomGroups(secs)
    IN  Concat([g \in 1..Len(groups) |-> RoomGroupConflicts(secs, rms, groups[g])])

LabBufferConflictsOf(secs, rms, buffer) ==
    LET groups == RoomGroups(secs)
    IN  Concat([g \in 1..Len(groups) |->
                    LabGroupConflicts(secs, rms, buffer, groups[g])])

(***************************************************************************)
(* computeConflicts: pathway issues (App.tsx 715-749)                      *)
(***************************************************************************)

\* Faulty variant: only the sections with a meeting block count as offered.
SectionsOfCourseWithBlocks(secs, courseCode) ==
    SelectSeq(secs, LAMBDA s : s.courseCode = courseCode /\ Len(s.meetingBlocks) > 0)

\* sections.filter(section => section.courseCode === courseCode)
SectionsOfCourse(secs, courseCode) ==
    SelectSeq(secs, LAMBDA s : s.courseCode = courseCode)

\* `${courseCode}: no sections offered in this scenario`
NoSectionsDetails(courseCode) ==
    <<courseCode, ": no sections offered in this scenario">>

\* `${courseA} conflicts with ${courseB} for all available sections`
PairDetails(courseA, courseB) ==
    <<courseA, " conflicts with ", courseB, " for all available sections">>

UnavailableIssues(secs, pathway) ==
    LET required == pathway.requiredCourseCodes
        missing  == SelectSeq([i \in 1..Len(required) |-> i],
                        LAMBDA i : Len(SectionsOfCourse(secs, required[i])) = 0)
    IN  [k \in 1..Len(missing) |->
            [pathwayId   |-> pathway.id,
             pathwayName |-> pathway.name,
             details     |-> NoSectionsDetails(required[missing[k]])]]

\* Faulty variant: one conflicting combination is enough.
SomePairConflicts(sectionsA, sectionsB) ==
    \E x \in 1..Len(sectionsA) : \E y \in 1..Len(sectionsB) :
        sectionsOverlap(sectionsA[x], sectionsB[y])

\* Faulty variant: the sections without meeting blocks are passed over.
AllScheduledPairsConflict(sectionsA, sectionsB) ==
    \A x \in 1..Len(sectionsA) : \A y \in 1..Len(sectionsB) :
        (Len(sectionsA[x].meetingBlocks) > 0 /\ Len(sectionsB[y].meetingBlocks) > 0)
        => sectionsOverlap(sectionsA[x], sectionsB[y])

\* sectionsA.every(a => sectionsB.every(b => sectionsOverlap(a, b)))
AllPairsConflict(sectionsA, sectionsB) ==
    \A x \in 1..Len(sectionsA) : \A y \in 1..Len(sectionsB) :
        sectionsOverlap(sectionsA[x], sectionsB[y])

\* The positions (i, j) of the required list that the pairwise pass visits.
RequiredPairs(required) == IndexPairs(Len(required), 1, 2)

\* Faulty variant: the pairwise pass without the skip of the pairs in which a
\* course has no section.
PairIssuesWithoutSkip(secs, pathway) ==
    LET required == pathway.requiredCourseCodes
        hit(p) == AllPairsConflict(SectionsOfCourse(secs, required[p[1]]),
                                   SectionsOfCourse(secs, required[p[2]]))
        found == SelectSeq(RequiredPairs(required), hit)
    IN  [k \in 1..Len(found) |->
            [pathwayId   |-> pathway.id,
             pathwayName |-> pathway.name,
             details     |-> PairDetails(required[found[k][1]], required[found[k][2]])]]

PairIssues(secs, pathway) ==
    LET required == pathway.requiredCourseCodes
        hit(p) ==
            LET sectionsA == SectionsOfCourse(secs, required[p[1]])
                sectionsB == SectionsOfCourse(secs, required[p[2]])
            IN  /\ ~(Len(sectionsA) = 0 \/ Len(sectionsB) = 0)
                /\ AllPairsConflict(sectionsA, sectionsB)
        found == SelectSeq(RequiredPairs(required), hit)
    IN  [k \in 1..Len(found) |->
            [pathwayId   |-> pathway.id,
             pathwayName |-> pathway.name,
             details     |-> PairDetails(required[found[k][1]], required[found[k][2]])]]

\* Faulty variant: an analysis without sections adds an issue of its own.
PathwayIssuesOrNotice(secs, pws) ==
    (IF secs = <<>>
     THEN <<[pathwayId |-> "", pathwayName |-> "",
             details |-> <<"no sections in this scenario">>]>>
     ELSE <<>>)
    \o Concat([p \in 1..Len(pws) |->
                UnavailableIssues(secs, pws[p]) \o PairIssues(secs, pws[p])])

PathwayIssuesOf(secs, pws) ==
    Concat([p \in 1..Len(pws) |->
                UnavailableIssues(secs, pws[p]) \o PairIssues(secs, pws[p])])

computeConflicts(secs, instrs, rms, pws, buffer) ==
    [instructorConflicts |-> InstructorConflictsOf(secs, instrs),
     roomConflicts       |-> RoomConflictsOf(secs, rms),
     labBufferConflicts  |-> LabBufferConflictsOf(secs, rms, buffer),
     pathwayIssues       |-> PathwayIssuesOf(secs, pws)]

(***************************************************************************)
(* App: the analysed section set and the report (App.tsx 1994-2002)        *)
(***************************************************************************)

\* Faulty variant: the sections of every scenario are analysed.
OfEveryScenario(secs, scenarioId) == secs

\* sections.filter(section => section.scenarioId === activeScenarioId)
ForScenario(secs, scenarioId) ==
    SelectSeq(secs, LAMBDA s : s.scenarioId = scenarioId)

EmptyReport ==
    [instructorConflicts |-> <<>>, roomConflicts |-> <<>>,
     labBufferConflicts |-> <<>>, pathwayIssues |-> <<>>]

\* Faulty variant: the identifiers of the lab buffer entries are left out.
ConflictSectionIdsWithoutBuffer(secs, report) ==
    {secs[report.instructorConflicts[k].sectionA].id :
        k \in 1..Len(report.instructorConflicts)}
    \cup {secs[report.instructorConflicts[k].sectionB].id :
        k \in 1..Len(report.instructorConflicts)}
    \cup {secs[report.roomConflicts[k].sectionA].id :
        k \in 1..Len(report.roomConflicts)}
    \cup {secs[report.roomConflicts[k].sectionB].id :
        k \in 1..Len(report.roomConflicts)}

\* ids = new Set(); the three forEach loops add item.sectionA.id and
\* item.sectionB.id, then item.firstSection.id and item.secondSection.id.
ConflictSectionIdsOf(secs, report) ==
    {secs[report.instructorConflicts[k].sectionA].id :
        k \in 1..Len(report.instructorConflicts)}
    \cup {secs[report.instructorConflicts[k].sectionB].id :
        k \in 1..Len(report.instructorConflicts)}
    \cup {secs[report.roomConflicts[k].sectionA].id :
        k \in 1..Len(report.roomConflicts)}
    \cup {secs[report.roomConflicts[k].sectionB].id :
        k \in 1..Len(report.roomConflicts)}
    \cup {secs[report.labBufferConflicts[k].firstSection].id :
        k \in 1..Len(report.labBufferConflicts)}
    \cup {secs[report.labBufferConflicts[k].secondSection].id :
        k \in 1..Len(report.labBufferConflicts)}

\* Faulty variant: the sort by start time is done on the meetingBlocks arrays
\* of the sections, which the sections state shares with the analysed list.
BlocksByStart(blocks) ==
    LET start(k) == minutesFromTime(blocks[k].startTime)
        rank(k) == Cardinality({j \in 1..Len(blocks) :
                        start(j) < start(k) \/ (start(j) = start(k) /\ j <= k)})
    IN  [n \in 1..Len(blocks) |-> blocks[CHOOSE k \in 1..Len(blocks) : rank(k) = n]]

AnalyzeSortingInPlace ==
    /\ pc = "idle"
    /\ conflicts' = computeConflicts(sectionsForScenario, instructors, rooms,
                                     pathways, labBufferMinutes)
    /\ conflictSectionIds' = ConflictSectionIdsOf(sectionsForScenario, conflicts')
    /\ pc' = "done"
    /\ sections' = [x \in 1..Len(sections) |->
            [sections[x] EXCEPT !.meetingBlocks = BlocksByStart(@)]]
    /\ sectionsForScenario' = [x \in 1..Len(sectionsForScenario) |->
            [sectionsForScenario[x] EXCEPT !.meetingBlocks = BlocksByStart(@)]]
    /\ UNCHANGED <<hydrated, storage, scenarios, activeScenarioId, instructors, rooms, pathways,
                   labBufferMinutes>>

\* conflicts = useMemo(() => computeConflicts(sectionsForScenario, instructors,
\* rooms, pathways, labBufferMinutes)) and conflictSectionIds = useMemo(...,
\* [conflicts]).  The call builds its indexes from fresh arrays and writes to
\* none of its arguments.
Analyze ==
    /\ pc = "idle"
    /\ conflicts' = computeConflicts(sectionsForScenario, instructors, rooms,
                                     pathways, labBufferMinutes)
    /\ conflictSectionIds' = ConflictSectionIdsOf(sectionsForScenario, conflicts')
    /\ pc' = "done"
    /\ UNCHANGED <<hydrated, storage, scenarios, sections, activeScenarioId, instructors, rooms,
                   pathways, labBufferMinutes, sectionsForScenario>>

(***************************************************************************)
(* App: the saved state (App.tsx 1924, 1943-1991)                          *)
(***************************************************************************)

\* const EXPORT_VERSION = 1
EXPORT_VERSION == 1

\* window.localStorage.getItem(STORAGE_KEY) when nothing was stored: null.
NoItem == [kind |-> "null"]

\* An item that JSON.parse rejects.
BrokenItem == [kind |-> "text"]

\* JSON.stringify(value): the text of a value made of strings, finite
\* numbers, arrays and objects without undefined fields; JSON.parse gives
\* the value back from it.
stringify(value) == [kind |-> "json", value |-> value]

\* JSON.parse(raw) succeeds.
Parses(raw) == raw.kind = "json"

\* isImportPayload(value): the five lists and the number are there.
isImportPayload(value) ==
    {"scenarios", "sections", "instructors", "rooms", "pathways", "labBufferMinutes"}
        \subseteq DOMAIN value

\* The payload that the persistence effect and handleExport build.
PayloadOf(scns, secs, instrs, rms, pws, buffer) ==
    [version |-> EXPORT_VERSION, scenarios |-> scns, sections |-> secs,
     instructors |-> instrs, rooms |-> rms, pathways |-> pws,
     labBufferMinutes |-> buffer]

\* Faulty variant: the persistence effect without `if (!hydrated) return`.
WrittenAlways(isHydrated, payload) == stringify(payload)

\* The item after the persistence effect has run in a render in which
\* hydrated is isHydrated and the six states make up payload.
WrittenBy(isHydrated, payload) ==
    IF ~isHydrated THEN storage ELSE stringify(payload)

(***************************************************************************)
(* The inputs of the analysis                                              *)
(***************************************************************************)

MaxSlotBlocks == 3
MaxPathSections == 4

Days == {"Mon", "Tue"}

\* "13:00", "16:15", "16:25"
Times == {<<13, 0>>, <<16, 15>>, <<16, 25>>}

\* Start and end of a block: every pair of times (zero and negative durations
\* included), and the pairs with the end after the start.
AnyInterval == Times \X Times
ProperInterval == {iv \in AnyInterval : minutesFromTime(iv[1]) < minutesFromTime(iv[2])}

\* 13:00-16:15 and 16:15-16:25.
BackToBack == {<<<<13, 0>>, <<16, 15>>>>, <<<<16, 15>>, <<16, 25>>>>}

\* 13:00-16:15 followed by 16:25-19:25, and 13:00-19:25 across both.
LabIntervals ==
    {<<<<13, 0>>, <<16, 15>>>>, <<<<16, 25>>, <<19, 25>>>>, <<<<13, 0>>, <<19, 25>>>>}

\* Room identifiers "a" and "a__b".
RoomA == <<"a">>
RoomAB == <<"a", "_", "_", "b">>

BlocksOf(days, intervals, roomIds, withoutRoom) ==
    {[day |-> d, startTime |-> iv[1], endTime |-> iv[2], roomId |-> r] :
        d \in days, iv \in intervals, r \in roomIds}
    \cup (IF withoutRoom
          THEN {[day |-> d, startTime |-> iv[1], endTime |-> iv[2]] :
                    d \in days, iv \in intervals}
          ELSE {})

SeqsFromTo(S, m, n) == UNION {[1..k -> S] : k \in m..n}

SectionIds == <<"s1", "s2", "s3", "s4", "s5", "s6">>

Bodies(courses, instrIds, blockSeqs) ==
    {[courseCode |-> c, instructorId |-> i, meetingBlocks |-> b] :
        c \in courses, i \in instrIds, b \in blockSeqs}

\* Sections numbered by position, all of scenario "sc1".
Numbered(bodies) ==
    [i \in 1..Len(bodies) |->
        [id |-> SectionIds[i], scenarioId |-> "sc1",
         courseCode |-> bodies[i].courseCode,
         instructorId |-> bodies[i].instructorId,
         meetingBlocks |-> bodies[i].meetingBlocks]]

Room(id, name, type) == [id |-> id, name |-> name, roomType |-> type]

\* "a" and "a__b" both labs; "a" a lecture room and "a__b" a lab.
RoomLists ==
    {<<Room(RoomA, <<"A">>, "lab"), Room(RoomAB, <<"A", "B">>, "lab")>>,
     <<Room(RoomA, <<"A">>, "lecture"), Room(RoomAB, <<"A", "B">>, "lab")>>}

\* Instructor "i1" is known, "i2" is not.
TheInstructors == <<[id |-> "i1", name |-> "Dr. Chen"]>>

Pathway(required) == [id |-> "p1", name |-> "Core", requiredCourseCodes |-> required]

\* Blocks without rooms of instructors "i1" and "i2": up to MaxSlotBlocks
\* sections of one well-formed block, or two sections of one or two.
InitInstructorInputs ==
    LET blocks == BlocksOf(Days, ProperInterval, {}, TRUE)
    IN  /\ sections \in {Numbered(b) :
                b \in SeqsFromTo(Bodies({"A"}, {"i1", "i2"},
                            SeqsFromTo(blocks, 1, 1)), 0, MaxSlotBlocks)
                   \cup SeqsFromTo(Bodies({"A"}, {"i1", "i2"},
                            SeqsFromTo(blocks, 1, 2)), 2, 2)}
        /\ rooms = <<>>
        /\ pathways = <<>>
        /\ labBufferMinutes = 30

\* Well-formed blocks in rooms "a" and "a__b": up to MaxSlotBlocks sections of
\* one block.
InitRoomInputs ==
    LET blocks == BlocksOf(Days, LabIntervals, {RoomA, RoomAB}, FALSE)
    IN  /\ sections \in {Numbered(b) :
                b \in SeqsFromTo(Bodies({"A"}, {"i1"},
                            SeqsFromTo(blocks, 1, 1)), 1, MaxSlotBlocks)}
        /\ rooms \in RoomLists
        /\ pathways = <<>>
        /\ labBufferMinutes \in {10, 30}

\* Courses "A", "a" and "B" required by one pathway: up to MaxPathSections
\* sections with no block or one block on Monday, 13:00-16:15 or 16:15-16:25.
InitPathwayInputs ==
    LET blocks == BlocksOf({"Mon"}, BackToBack, {}, TRUE)
    IN  /\ sections \in {Numbered(b) :
                b \in SeqsFromTo(Bodies({"A", "a", "B"}, {"i1"},
                            SeqsFromTo(blocks, 0, 1)), 1, MaxPathSections)}
        /\ rooms = <<>>
        /\ pathways \in {<<Pathway(<<"A", "B", "a">>)>>, <<Pathway(<<"A", "B", "A">>)>>}
        /\ labBufferMinutes = 30

\* Two sections of courses "A" and "B" with up to two well-formed blocks each.
InitPathwayBlockInputs ==
    LET blocks == BlocksOf(Days, ProperInterval, {}, TRUE)
    IN  /\ sections \in {Numbered(b) :
                b \in SeqsFromTo(Bodies({"A", "B"}, {"i1"},
                            SeqsFromTo(blocks, 0, 2)), 2, 2)}
        /\ rooms = <<>>
        /\ pathways = <<Pathway(<<"A", "B">>)>>
        /\ labBufferMinutes = 30

\* One or two sections of any course and instructor with at most one block of
\* any duration, zero and negative included, in room "a", "a__b" or none.
InitMixedInputs ==
    LET blocks == BlocksOf(Days, AnyInterval, {RoomA, RoomAB}, TRUE)
    IN  /\ sections \in {Numbered(b) :
                b \in SeqsFromTo(Bodies({"A", "B"}, {"i1", "i2"},
                            SeqsFromTo(blocks, 0, 1)), 1, 2)
                   \cup SeqsFromTo(Bodies({"A"}, {"i1"},
                            SeqsFromTo(blocks, 2, 2)), 1, 1)}
        /\ rooms = <<Room(RoomA, <<"A">>, "lab")>>
        /\ pathways = <<Pathway(<<"A", "B">>)>>
        /\ labBufferMinutes = 30

\* 13:00-16:15 with 14:00-15:00 inside it, followed by 16:25-19:25.
NestedIntervals ==
    {<<<<13, 0>>, <<16, 15>>>>, <<<<14, 0>>, <<15, 0>>>>, <<<<16, 25>>, <<19, 25>>>>}

\* Up to MaxSlotBlocks sections of one block on Monday in lab room "a", one
\* block possibly inside the hours of another.
InitNestedInputs ==
    LET blocks == BlocksOf({"Mon"}, NestedIntervals, {RoomA}, FALSE)
    IN  /\ sections \in {Numbered(b) :
                b \in SeqsFromTo(Bodies({"A"}, {"i1", "i2"},
                            SeqsFromTo(blocks, 1, 1)), 1, MaxSlotBlocks)}
        /\ rooms = <<Room(RoomA, <<"A">>, "lab")>>
        /\ pathways = <<>>
        /\ labBufferMinutes = 30

\* Blocks of instructor "i1" on Monday whose roomId is absent, the empty
\* string or "a": up to MaxSlotBlocks sections of one well-formed block.
InitRoomlessInputs ==
    LET blocks == BlocksOf({"Mon"}, ProperInterval, {<<>>, RoomA}, TRUE)
    IN  /\ sections \in {Numbered(b) :
                b \in SeqsFromTo(Bodies({"A"}, {"i1"},
                            SeqsFromTo(blocks, 1, 1)), 1, MaxSlotBlocks)}
        /\ instructors = TheInstructors
        /\ rooms = <<Room(RoomA, <<"A">>, "lab")>>
        /\ pathways = <<>>
        /\ labBufferMinutes = 30

\* No sections and no pathways, with any of the instructor lists, room lists
\* and buffers.
InitEmptyInputs ==
    /\ sections = <<>>
    /\ instructors \in {<<>>, TheInstructors}
    /\ rooms \in RoomLists \cup {<<>>}
    /\ pathways = <<>>
    /\ labBufferMinutes \in {0, 10, 30}

\* The one scenario of the analysed sections.
TheScenarios == <<[id |-> "sc1", name |-> "Draft A", term |-> "Fall 2024"]>>

Init ==
    /\ scenarios = TheScenarios
    /\ activeScenarioId = "sc1"
    /\ conflicts = EmptyReport
    /\ conflictSectionIds = {}
    /\ pc = "idle"
    /\ hydrated = TRUE
    /\ storage = NoItem
    /\ \/ /\ instructors = TheInstructors
          /\ \/ InitInstructorInputs
             \/ InitRoomInputs
             \/ InitPathwayInputs
             \/ InitPathwayBlockInputs
             \/ InitMixedInputs
             \/ InitNestedInputs
       \/ InitRoomlessInputs
       \/ InitEmptyInputs
    /\ sectionsForScenario = ForScenario(sections, activeScenarioId)

Next == Analyze

Spec == Init /\ [][Next]_vars

(***************************************************************************)
(* A second call with the same arguments                                   *)
(***************************************************************************)

\* Faulty variant: the result lists outlive the call, and the second call
\* appends to what the first one left.
ReanalyzeAccumulating ==
    /\ pc = "done"
    /\ conflicts' =
          LET again == computeConflicts(sectionsForScenario, instructors, rooms,
                                        pathways, labBufferMinutes)
          IN  [instructorConflicts |->
                    conflicts.instructorConflicts \o again.instructorConflicts,
               roomConflicts |-> conflicts.roomConflicts \o again.roomConflicts,
               labBufferConflicts |->
                    conflicts.labBufferConflicts \o again.labBufferConflicts,
               pathwayIssues |-> conflicts.pathwayIssues \o again.pathwayIssues]
    /\ conflictSectionIds' = ConflictSectionIdsOf(sectionsForScenario, conflicts')
    /\ pc' = "again"
    /\ UNCHANGED <<hydrated, storage, scenarios, sections, activeScenarioId, instructors, rooms,
                   pathways, labBufferMinutes, sectionsForScenario>>

\* computeConflicts called once more with the arguments of the first call:
\* the maps, the two records and the four result lists are locals that the
\* call creates empty (App.tsx 616-622, 637, 661-662, 715).
Reanalyze ==
    /\ pc = "done"
    /\ conflicts' = computeConflicts(sectionsForScenario, instructors, rooms,
                                     pathways, labBufferMinutes)
    /\ conflictSectionIds' = ConflictSectionIdsOf(sectionsForScenario, conflicts')
    /\ pc' = "again"
    /\ UNCHANGED <<hydrated, storage, scenarios, sections, activeScenarioId, instructors, rooms,
                   pathways, labBufferMinutes, sectionsForScenario>>

NextReanalysis == Analyze \/ Reanalyze

SpecReanalysis == Init /\ [][NextReanalysis]_vars

(***************************************************************************)
(* A call with the same sections and blocks in another order               *)
(***************************************************************************)

\* The list with the elements at positions i and j exchanged.
Swapped(list, i, j) ==
    [k \in 1..Len(list) |-> IF k = i THEN list[j] ELSE IF k = j THEN list[i] ELSE list[k]]

\* The section lists that hold the same sections as secs with two
\* neighbouring sections, or the two blocks of one section, in the opposite
\* order.  Every other order of the sections is a chain of such exchanges.
Reorderings(secs) ==
    {Swapped(secs, i, i + 1) : i \in 1..(Len(secs) - 1)}
    \cup {[secs EXCEPT ![x].meetingBlocks = Swapped(@, 1, 2)] :
            x \in {y \in 1..Len(secs) : Len(secs[y].meetingBlocks) = 2}}

\* computeConflicts called on a reordering of the sections of the first call,
\* with the same instructors, rooms, pathways and buffer.
AnalyzeReordered ==
    /\ pc = "done"
    /\ sections' \in Reorderings(sections) \ {sections}
    /\ sectionsForScenario' = ForScenario(sections', activeScenarioId)
    /\ conflicts' = computeConflicts(sectionsForScenario', instructors, rooms,
                                     pathways, labBufferMinutes)
    /\ conflictSectionIds' = ConflictSectionIdsOf(sectionsForScenario', conflicts')
    /\ pc' = "reordered"
    /\ UNCHANGED <<hydrated, storage, scenarios, activeScenarioId, instructors, rooms, pathways,
                   labBufferMinutes>>

NextReordered == Analyze \/ AnalyzeReordered

SpecReordered == Init /\ [][NextReordered]_vars

(***************************************************************************)
(* A call with another buffer or other room types                          *)
(***************************************************************************)

\* type RoomType
RoomTypes == {"lab", "lecture", "virtual", "other"}

\* Values of the lab buffer input.
BufferValues == {0, 10, 30}

\* One block on Monday in room "a" or "a__b" for each of up to MaxSlotBlocks
\* sections of courses "A" and "B", all of instructor "i1"; the pathway
\* requires both courses.
InitVariedInputs ==
    LET blocks == BlocksOf({"Mon"}, LabIntervals, {RoomA, RoomAB}, FALSE)
    IN  /\ scenarios = TheScenarios
        /\ activeScenarioId = "sc1"
        /\ sections \in {Numbered(b) :
                b \in SeqsFromTo(Bodies({"A", "B"}, {"i1"},
                            SeqsFromTo(blocks, 1, 1)), 1, MaxSlotBlocks)}
        /\ instructors = TheInstructors
        /\ rooms \in RoomLists
        /\ pathways = <<Pathway(<<"A", "B">>)>>
        /\ labBufferMinutes \in {10, 30}
        /\ sectionsForScenario = ForScenario(sections, activeScenarioId)
        /\ conflicts = EmptyReport
        /\ conflictSectionIds = {}
        /\ pc = "idle"
        /\ hydrated = TRUE
        /\ storage = NoItem

\* setLabBufferMinutes(Number(event.target.value)) and the analysis of the
\* render that follows.
AnalyzeWithBuffer ==
    /\ pc = "done"
    /\ labBufferMinutes' \in BufferValues \ {labBufferMinutes}
    /\ conflicts' = computeConflicts(sectionsForScenario, instructors, rooms,
                                     pathways, labBufferMinutes')
    /\ conflictSectionIds' = ConflictSectionIdsOf(sectionsForScenario, conflicts')
    /\ pc' = "varied"
    /\ UNCHANGED <<hydrated, storage, scenarios, sections, activeScenarioId, instructors, rooms,
                   pathways, sectionsForScenario>>

\* The analysis with a rooms list in which one room has another roomType.
AnalyzeWithRoomType ==
    /\ pc = "done"
    /\ \E r \in 1..Len(rooms) : \E type \in RoomTypes \ {rooms[r].roomType} :
          rooms' = [rooms EXCEPT ![r].roomType = type]
    /\ conflicts' = computeConflicts(sectionsForScenario, instructors, rooms',
                                     pathways, labBufferMinutes)
    /\ conflictSectionIds' = ConflictSectionIdsOf(sectionsForScenario, conflicts')
    /\ pc' = "varied"
    /\ UNCHANGED <<hydrated, storage, scenarios, sections, activeScenarioId, instructors, pathways,
                   labBufferMinutes, sectionsForScenario>>

NextVaried == Analyze \/ AnalyzeWithBuffer \/ AnalyzeWithRoomType

SpecVaried == InitVariedInputs /\ [][NextVaried]_vars

(***************************************************************************)
(* App: the handlers of the schedule (App.tsx 2021-2080, 2162)             *)
(***************************************************************************)

MaxSections == 3
MaxScenarios == 2

\* DEFAULT_SCENARIOS
DEFAULT_SCENARIOS ==
    <<[id |-> "fall-2024-draft-a", name |-> "Draft A", term |-> "Fall 2024"]>>

\* DEFAULT_INSTRUCTORS
DEFAULT_INSTRUCTORS ==
    <<[id |-> "astronomy-faculty", name |-> "Astronomy Faculty"],
      [id |-> "physics-faculty", name |-> "Physics Faculty"],
      [id |-> "tbd", name |-> "TBD"]>>

\* DEFAULT_ROOMS
DEFAULT_ROOMS ==
    <<Room(<<"ONLINE">>, <<"Online / Asynchronous">>, "virtual"),
      Room(<<"TBA-LECTURE">>, <<"TBA Lecture Hall">>, "lecture"),
      Room(<<"SC-312">>, <<"Science Center 312">>, "lab")>>

\* makeMeetingBlocks(days, start, end, roomId)
makeMeetingBlocks(days, start, end, roomId) ==
    [i \in 1..Len(days) |->
        [day |-> days[i], startTime |-> start, endTime |-> end, roomId |-> roomId]]

\* DEFAULT_SECTIONS: of the 34 sections of the table, PHYS210-01 and
\* PHYS211-01, which meet at the same time in the same room with the same
\* instructor.
DEFAULT_SECTIONS ==
    <<[id |-> "PHYS210-01", scenarioId |-> "fall-2024-draft-a",
       courseCode |-> "PHYS 210", instructorId |-> "physics-faculty",
       meetingBlocks |-> makeMeetingBlocks(<<"Mon", "Wed">>, <<19, 35>>, <<21, 0>>,
                                           <<"TBA-LECTURE">>)],
      [id |-> "PHYS211-01", scenarioId |-> "fall-2024-draft-a",
       courseCode |-> "PHYS 211", instructorId |-> "physics-faculty",
       meetingBlocks |-> makeMeetingBlocks(<<"Mon", "Wed">>, <<19, 35>>, <<21, 0>>,
                                           <<"TBA-LECTURE">>)]>>

\* DEFAULT_PATHWAYS
DEFAULT_PATHWAYS ==
    <<[id |-> "astronomy-track", name |-> "Astronomy Cohort",
       requiredCourseCodes |-> <<"ASTR 109", "ASTR 110", "ASTR 140">>],
      [id |-> "physics-major", name |-> "Physics Major Core",
       requiredCourseCodes |-> <<"PHYS 210", "PHYS 210L", "PHYS 211", "PHYS 211L">>]>>

\* generateId(prefix): the prefix and eight characters of Math.random(); any
\* identifier of the pool may come out, one that is in use included.
SectionIdPool == {"section-1", "section-2"}
ScenarioIdPool == {"scenario-1", "scenario-2"}
InstructorIdPool == {"inst-1"}

\* name.toLowerCase() on the instructor names in use.
toLowerCase(name) ==
    CASE name = "Astronomy Faculty" -> "astronomy faculty"
      [] name = "Physics Faculty" -> "physics faculty"
      [] name = "TBD" -> "tbd"
      [] name = "Dr. Chen" -> "dr. chen"
      [] OTHER -> name

\* The drafts that SectionForm hands to onCreate: an on-campus section of
\* PHYS 210 with one block, its instructor typed in lower case, and an online
\* section of ASTR 110 without blocks with an instructor not yet known.
Drafts ==
    {[courseCode |-> "PHYS 210", instructorName |-> "physics faculty",
      meetingBlocks |-> <<[day |-> "Mon", startTime |-> <<19, 35>>,
                           endTime |-> <<21, 0>>, roomId |-> <<"TBA-LECTURE">>]>>],
     [courseCode |-> "ASTR 110", instructorName |-> "Dr. Chen",
      meetingBlocks |-> <<>>]}

\* The three useMemo hooks of a render.
Memos ==
    /\ sectionsForScenario' = ForScenario(sections', activeScenarioId')
    /\ conflicts' = computeConflicts(sectionsForScenario', instructors', rooms',
                                     pathways', labBufferMinutes')
    /\ conflictSectionIds' = ConflictSectionIdsOf(sectionsForScenario', conflicts')

\* The render that follows a state update of a handler, and the persistence
\* effect after it.  The effect runs when one of its dependencies changed;
\* when none did, the item already is the text of the same payload.
Render ==
    /\ Memos
    /\ hydrated' = hydrated
    /\ storage' = WrittenBy(hydrated', PayloadOf(scenarios', sections', instructors',
                                                 rooms', pathways', labBufferMinutes'))
    /\ pc' = "done"

\* ensureInstructor(name): the id of the first instructor with that name,
\* case ignored, or a new instructor, appended.
ensureInstructor(name, newId) ==
    LET existing == {i \in 1..Len(instructors) :
                        toLowerCase(instructors[i].name) = toLowerCase(name)}
    IN  IF existing # {}
        THEN [id |-> instructors[CHOOSE i \in existing : \A k \in existing : i <= k].id,
              instructors |-> instructors]
        ELSE [id |-> newId,
              instructors |-> Append(instructors, [id |-> newId, name |-> name])]

handleAddSection ==
    \E draft \in Drafts : \E sectionId \in SectionIdPool :
    \E instructorId \in InstructorIdPool :
        /\ Len(sections) < MaxSections
        /\ LET ensured == ensureInstructor(draft.instructorName, instructorId)
               newSection == [id |-> sectionId,
                              scenarioId |-> activeScenarioId,
                              courseCode |-> draft.courseCode,
                              instructorId |-> ensured.id,
                              meetingBlocks |-> draft.meetingBlocks]
           IN  /\ instructors' = ensured.instructors
               /\ sections' = Append(sections, newSection)
        /\ UNCHANGED <<scenarios, activeScenarioId, rooms, pathways, labBufferMinutes>>
        /\ Render

\* The Remove button of a row of SectionTable, which lists
\* sectionsForScenario.
handleRemoveSection ==
    \E x \in 1..Len(sectionsForScenario) :
        /\ sections' = SelectSeq(sections, LAMBDA s : s.id # sectionsForScenario[x].id)
        /\ UNCHANGED <<scenarios, activeScenarioId, instructors, rooms, pathways,
                       labBufferMinutes>>
        /\ Render

handleCreateScenario ==
    \E scenarioId \in ScenarioIdPool :
        /\ Len(scenarios) < MaxScenarios
        /\ scenarios' = Append(scenarios,
                [id |-> scenarioId, name |-> "Draft B", term |-> "Fall 2024"])
        /\ activeScenarioId' = scenarioId
        /\ UNCHANGED <<sections, instructors, rooms, pathways, labBufferMinutes>>
        /\ Render

\* onSelect={setActiveScenarioId}: an option of the scenario select.
SelectScenario ==
    \E x \in 1..Len(scenarios) :
        /\ activeScenarioId' = scenarios[x].id
        /\ UNCHANGED <<scenarios, sections, instructors, rooms, pathways,
                       labBufferMinutes>>
        /\ Render

\* The state of App after a start without a saved state, rendered and saved.
AppInit ==
    /\ scenarios = DEFAULT_SCENARIOS
    /\ activeScenarioId = DEFAULT_SCENARIOS[1].id
    /\ sections = DEFAULT_SECTIONS
    /\ instructors = DEFAULT_INSTRUCTORS
    /\ rooms = DEFAULT_ROOMS
    /\ pathways = DEFAULT_PATHWAYS
    /\ labBufferMinutes = 30
    /\ sectionsForScenario = ForScenario(sections, activeScenarioId)
    /\ conflicts = computeConflicts(sectionsForScenario, instructors, rooms,
                                    pathways, labBufferMinutes)
    /\ conflictSectionIds = ConflictSectionIdsOf(sectionsForScenario, conflicts)
    /\ pc = "done"
    /\ hydrated = TRUE
    /\ storage = stringify(PayloadOf(scenarios, sections, instructors, rooms,
                                     pathways, labBufferMinutes))

AppNext ==
    \/ handleAddSection
    \/ handleRemoveSection
    \/ handleCreateScenario
    \/ SelectScenario

AppSpec == AppInit /\ [][AppNext]_vars

(***************************************************************************)
(* App: startup, import and reset (App.tsx 1926-1991, 2116-2136)           *)
(***************************************************************************)

\* A saved state of an earlier session: one scenario, one section, a buffer
\* of 45 minutes, written under another version number.
SavedPayload ==
    [version |-> 0,
     scenarios |-> <<[id |-> "spring-2025", name |-> "Draft", term |-> "Spring 2025"]>>,
     sections |-> <<[id |-> "ASTR109-01", scenarioId |-> "spring-2025",
                     courseCode |-> "ASTR 109", instructorId |-> "tbd",
                     meetingBlocks |-> makeMeetingBlocks(<<"Tue">>, <<9, 0>>, <<10, 15>>,
                                                         <<"SC-312">>)]>>,
     instructors |-> DEFAULT_INSTRUCTORS,
     rooms |-> DEFAULT_ROOMS,
     pathways |-> DEFAULT_PATHWAYS,
     labBufferMinutes |-> 45]

\* A schedule file with one scenario and no sections.
FilePayload ==
    [version |-> 1,
     scenarios |-> <<[id |-> "summer-2025", name |-> "Draft", term |-> "Summer 2025"]>>,
     sections |-> <<>>,
     instructors |-> <<>>,
     rooms |-> <<>>,
     pathways |-> <<>>,
     labBufferMinutes |-> 20]

\* A payload that isImportPayload accepts with an empty scenarios list; its
\* sections are those of the built-in scenario.
PayloadWithoutScenarios ==
    [version |-> 1,
     scenarios |-> <<>>,
     sections |-> DEFAULT_SECTIONS,
     instructors |-> DEFAULT_INSTRUCTORS,
     rooms |-> DEFAULT_ROOMS,
     pathways |-> <<>>,
     labBufferMinutes |-> 15]

\* What the storage may hold when the page loads: nothing, text that is not
\* JSON, JSON that is no payload, and payloads.
SavedItems ==
    {NoItem, BrokenItem, stringify([version |-> 1]),
     stringify(SavedPayload), stringify(PayloadWithoutScenarios),
     stringify(PayloadOf(DEFAULT_SCENARIOS, DEFAULT_SECTIONS, DEFAULT_INSTRUCTORS,
                         DEFAULT_ROOMS, DEFAULT_PATHWAYS, 30))}

\* The files that handleFileChange passes to onImport.
ImportFiles == {f \in {FilePayload, PayloadWithoutScenarios} : isImportPayload(f)}

\* The state updates of the hydration effect (App.tsx 1943-1968).
HydrationEffect ==
    /\ IF storage # NoItem /\ Parses(storage) /\ isImportPayload(storage.value)
       THEN LET parsed == storage.value
            IN  /\ scenarios' = parsed.scenarios
                /\ sections' = parsed.sections
                /\ instructors' = parsed.instructors
                /\ rooms' = parsed.rooms
                /\ pathways' = parsed.pathways
                /\ labBufferMinutes' = parsed.labBufferMinutes
                /\ activeScenarioId' = IF Len(parsed.scenarios) > 0
                                       THEN parsed.scenarios[1].id
                                       ELSE activeScenarioId
       ELSE UNCHANGED <<scenarios, sections, instructors, rooms, pathways,
                        labBufferMinutes, activeScenarioId>>
    /\ hydrated' = TRUE

\* The effects of the first render, in the order of their declaration: the
\* hydration effect queues its updates, the persistence effect runs with the
\* states of the first render, and the render with the queued updates
\* follows.
MountEffects ==
    /\ pc = "mounted"
    /\ HydrationEffect
    /\ storage' = WrittenBy(hydrated, PayloadOf(scenarios, sections, instructors,
                                                rooms, pathways, labBufferMinutes))
    /\ Memos
    /\ pc' = "hydrated"

\* The persistence effect of the render in which hydrated has become true.
PersistenceEffect ==
    /\ pc = "hydrated"
    /\ storage' = WrittenBy(hydrated, PayloadOf(scenarios, sections, instructors,
                                                rooms, pathways, labBufferMinutes))
    /\ pc' = "done"
    /\ UNCHANGED <<scenarios, sections, activeScenarioId, instructors, rooms,
                   pathways, labBufferMinutes, sectionsForScenario, conflicts,
                   conflictSectionIds, hydrated>>

handleImport ==
    \E data \in ImportFiles :
        /\ scenarios' = data.scenarios
        /\ sections' = data.sections
        /\ instructors' = data.instructors
        /\ rooms' = data.rooms
        /\ pathways' = data.pathways
        /\ labBufferMinutes' = data.labBufferMinutes
        /\ activeScenarioId' = IF Len(data.scenarios) > 0
                               THEN data.scenarios[1].id
                               ELSE activeScenarioId
        /\ Render

handleReset ==
    /\ scenarios' = DEFAULT_SCENARIOS
    /\ activeScenarioId' = DEFAULT_SCENARIOS[1].id
    /\ sections' = DEFAULT_SECTIONS
    /\ instructors' = DEFAULT_INSTRUCTORS
    /\ rooms' = DEFAULT_ROOMS
    /\ pathways' = DEFAULT_PATHWAYS
    /\ labBufferMinutes' = 30
    /\ Render

\* The lab buffer input: setLabBufferMinutes(Number(event.target.value)).
handleLabBufferChange ==
    \E minutes \in BufferValues :
        /\ labBufferMinutes' = minutes
        /\ UNCHANGED <<scenarios, sections, activeScenarioId, instructors, rooms,
                       pathways>>
        /\ Render

\* The first render of App: the useState initial values, hydrated false, and
\* whatever the storage holds.
StartupInit ==
    /\ scenarios = DEFAULT_SCENARIOS
    /\ activeScenarioId = DEFAULT_SCENARIOS[1].id
    /\ sections = DEFAULT_SECTIONS
    /\ instructors = DEFAULT_INSTRUCTORS
    /\ rooms = DEFAULT_ROOMS
    /\ pathways = DEFAULT_PATHWAYS
    /\ labBufferMinutes = 30
    /\ sectionsForScenario = ForScenario(sections, activeScenarioId)
    /\ conflicts = computeConflicts(sectionsForScenario, instructors, rooms,
                                    pathways, labBufferMinutes)
    /\ conflictSectionIds = ConflictSectionIdsOf(sectionsForScenario, conflicts)
    /\ pc = "mounted"
    /\ hydrated = FALSE
    /\ storage \in SavedItems

\* The handlers act on the page once the effects of the start have run.
StartupNext ==
    \/ MountEffects
    \/ PersistenceEffect
    \/ pc = "done" /\ handleImport
    \/ pc = "done" /\ handleReset
    \/ pc = "done" /\ handleCreateScenario
    \/ pc = "done" /\ SelectScenario
    \/ pc = "done" /\ handleRemoveSection
    \/ pc = "done" /\ handleLabBufferChange

StartupSpec == StartupInit /\ [][StartupNext]_vars

(***************************************************************************)
(* Vocabulary of the properties: the analysed input and the report, read   *)
(* without the operators of the analysis                                   *)
(***************************************************************************)

Done == pc = "done"

Secs == sectionsForScenario

\* The references to the blocks of the input.
Refs == {ref \in (1..Len(Secs)) \X (1..2) : ref[2] <= Len(Secs[ref[1]].meetingBlocks)}

BlockAt(ref) == Secs[ref[1]].meetingBlocks[ref[2]]

\* Start and end of a block in minutes since midnight.
StartMin(block) == block.startTime[1] * 60 + block.startTime[2]
EndMin(block) == block.endTime[1] * 60 + block.endTime[2]

\* startA < endB and startB < endA
TimesOverlap(blockA, blockB) ==
    StartMin(blockA) < EndMin(blockB) /\ StartMin(blockB) < EndMin(blockA)

\* One block ends at exactly the minute the other starts.
Touching(blockA, blockB) ==
    EndMin(blockA) = StartMin(blockB) \/ EndMin(blockB) = StartMin(blockA)

InstructorOf(ref) == Secs[ref[1]].instructorId

RoomOf(ref) == BlockAt(ref).roomId

InRoom(ref) == "roomId" \in DOMAIN BlockAt(ref) /\ BlockAt(ref).roomId # <<>>

\* The positions of the entries of a list that carry the blocks p and q,
\* in either order.
EntriesOfPair(list, p, q) ==
    {k \in 1..Len(list) : {list[k].blockA, list[k].blockB} = {p, q}}

\* The unordered pairs of distinct blocks, each once.
BlockPairs == {pq \in Refs \X Refs :
                  pq[1][1] < pq[2][1] \/ (pq[1][1] = pq[2][1] /\ pq[1][2] < pq[2][2])}

(***************************************************************************)
(* C1                                                                      *)
(***************************************************************************)

\* C1: every unordered pair of distinct blocks of sections with the same
\* instructorId is in instructorConflicts exactly once if the blocks are on
\* the same day and startA < endB and startB < endA, and not at all
\* otherwise; so N blocks of one instructor on one day that all overlap one
\* another give N*(N-1)/2 entries for that instructor and day.
C1_InstructorPairsExactlyOnce ==
    Done =>
        /\ \A pq \in BlockPairs :
              InstructorOf(pq[1]) = InstructorOf(pq[2]) =>
                 Cardinality(EntriesOfPair(conflicts.instructorConflicts, pq[1], pq[2]))
                    = IF /\ BlockAt(pq[1]).day = BlockAt(pq[2]).day
                         /\ TimesOverlap(BlockAt(pq[1]), BlockAt(pq[2]))
                      THEN 1 ELSE 0
        /\ \A inst \in {InstructorOf(r) : r \in Refs} : \A d \in Days :
              LET mine == {r \in Refs : InstructorOf(r) = inst /\ BlockAt(r).day = d}
                  n == Cardinality(mine)
              IN  (\A x, y \in mine : x # y => TimesOverlap(BlockAt(x), BlockAt(y)))
                  => Cardinality({k \in 1..Len(conflicts.instructorConflicts) :
                            /\ conflicts.instructorConflicts[k].instructorId = inst
                            /\ conflicts.instructorConflicts[k].blockA \in mine})
                        = (n * (n - 1)) \div 2

\* Three blocks of one instructor on one day that all overlap one another,
\* reported as three entries.
C1_Witness ==
    /\ Done
    /\ \E inst \in {"i1", "i2"} : \E d \in Days :
          LET mine == {r \in Refs : InstructorOf(r) = inst /\ BlockAt(r).day = d}
          IN  /\ Cardinality(mine) = 3
              /\ \A x, y \in mine : x # y => TimesOverlap(BlockAt(x), BlockAt(y))
              /\ Len(conflicts.instructorConflicts) = 3

(***************************************************************************)
(* C2                                                                      *)
(***************************************************************************)

\* Two sections count as conflicting in the pathway check.
CountAsConflicting(a, b) == sectionsOverlap(a, b)

\* The pathway issue "A conflicts with B for all available sections" is in
\* the report.
PairIssueEmitted(pathway, courseA, courseB) ==
    \E k \in 1..Len(conflicts.pathwayIssues) :
        /\ conflicts.pathwayIssues[k].pathwayId = pathway.id
        /\ conflicts.pathwayIssues[k].details
              = <<courseA, " conflicts with ", courseB, " for all available sections">>

\* C2: two blocks on the same day of which one ends at exactly the minute the
\* other starts are in no instructorConflicts entry and in no roomConflicts
\* entry together, and two sections never count as conflicting in the
\* pathway check through such blocks alone: when they count as conflicting,
\* some block of one and some block of the other share a day and do not
\* touch.
C2_TouchingNeverConflicts ==
    Done =>
        /\ \A pq \in BlockPairs :
              (BlockAt(pq[1]).day = BlockAt(pq[2]).day
                    /\ Touching(BlockAt(pq[1]), BlockAt(pq[2])))
              => /\ EntriesOfPair(conflicts.instructorConflicts, pq[1], pq[2]) = {}
                 /\ EntriesOfPair(conflicts.roomConflicts, pq[1], pq[2]) = {}
        /\ \A x, y \in 1..Len(Secs) :
              CountAsConflicting(Secs[x], Secs[y])
              => \E p, q \in Refs :
                    /\ p[1] = x /\ q[1] = y
                    /\ BlockAt(p).day = BlockAt(q).day
                    /\ ~Touching(BlockAt(p), BlockAt(q))
        /\ \A w \in 1..Len(pathways) : \A courseA, courseB \in {"A", "a", "B"} :
              PairIssueEmitted(pathways[w], courseA, courseB)
              => \A x, y \in 1..Len(Secs) :
                    (Secs[x].courseCode = courseA /\ Secs[y].courseCode = courseB)
                    => \E p, q \in Refs :
                          /\ p[1] = x /\ q[1] = y
                          /\ BlockAt(p).day = BlockAt(q).day
                          /\ ~Touching(BlockAt(p), BlockAt(q))

\* Sections of the required courses "A" and "B" with the same instructor and
\* room whose blocks touch on one day, analysed with an empty report.
C2_Witness ==
    /\ Done
    /\ Len(Secs) = 2
    /\ Secs[1].courseCode = "A" /\ Secs[2].courseCode = "B"
    /\ Secs[1].instructorId = Secs[2].instructorId
    /\ Refs = {<<1, 1>>, <<2, 1>>}
    /\ InRoom(<<1, 1>>) /\ InRoom(<<2, 1>>)
    /\ RoomOf(<<1, 1>>) = RoomOf(<<2, 1>>)
    /\ BlockAt(<<1, 1>>).day = BlockAt(<<2, 1>>).day
    /\ EndMin(BlockAt(<<1, 1>>)) = StartMin(BlockAt(<<2, 1>>))
    /\ StartMin(BlockAt(<<1, 1>>)) < EndMin(BlockAt(<<1, 1>>))
    /\ StartMin(BlockAt(<<2, 1>>)) < EndMin(BlockAt(<<2, 1>>))
    /\ pathways # <<>>
    /\ conflicts.instructorConflicts = <<>>
    /\ conflicts.roomConflicts = <<>>
    /\ conflicts.pathwayIssues = <<>>

(***************************************************************************)
(* C3                                                                      *)
(***************************************************************************)

\* Position of a block in its room and day group after the sort by start
\* time with ties in input order: p comes before q.
Before(p, q) ==
    \/ StartMin(BlockAt(p)) < StartMin(BlockAt(q))
    \/ /\ StartMin(BlockAt(p)) = StartMin(BlockAt(q))
       /\ (p[1] < q[1] \/ (p[1] = q[1] /\ p[2] < q[2]))

SameRoomAndDay(p, q) ==
    /\ InRoom(p) /\ InRoom(q)
    /\ RoomOf(p) = RoomOf(q)
    /\ BlockAt(p).day = BlockAt(q).day

\* C3: every unordered pair of distinct blocks with the same non-empty roomId
\* and the same day is in roomConflicts exactly once if startA < endB and
\* startB < endA, adjacent in start-time order or not and whatever the type of
\* the room, and not at all otherwise; no roomConflicts entry pairs blocks of
\* different rooms or of different days.
C3_RoomPairsExactlyOnce ==
    Done =>
        /\ \A pq \in BlockPairs :
              SameRoomAndDay(pq[1], pq[2]) =>
                 Cardinality(EntriesOfPair(conflicts.roomConflicts, pq[1], pq[2]))
                    = IF TimesOverlap(BlockAt(pq[1]), BlockAt(pq[2])) THEN 1 ELSE 0
        /\ \A k \in 1..Len(conflicts.roomConflicts) :
              /\ conflicts.roomConflicts[k].blockA \in Refs
              /\ conflicts.roomConflicts[k].blockB \in Refs
              /\ conflicts.roomConflicts[k].blockA # conflicts.roomConflicts[k].blockB
              /\ SameRoomAndDay(conflicts.roomConflicts[k].blockA,
                                conflicts.roomConflicts[k].blockB)

\* A reported pair of overlapping blocks with a third block of the same room
\* and day between them in start-time order.
C3_Witness ==
    /\ Done
    /\ \E k \in 1..Len(conflicts.roomConflicts) : \E r \in Refs :
          LET p == conflicts.roomConflicts[k].blockA
              q == conflicts.roomConflicts[k].blockB
          IN  /\ r \notin {p, q}
              /\ SameRoomAndDay(p, r)
              /\ Before(p, r) /\ Before(r, q)

(***************************************************************************)
(* C4 and C5                                                               *)
(***************************************************************************)

\* The identifiers of the rooms whose roomType is "lab".
LabRoomIds == {rooms[i].id : i \in {j \in 1..Len(rooms) : rooms[j].roomType = "lab"}}

\* The blocks of one room and day.
GroupOf(roomId, d) ==
    {r \in Refs : InRoom(r) /\ RoomOf(r) = roomId /\ BlockAt(r).day = d}

\* p and q are at positions i and i+1 of their room and day group sorted by
\* start time.
Consecutive(p, q) ==
    /\ p # q
    /\ SameRoomAndDay(p, q)
    /\ Before(p, q)
    /\ ~\E r \in GroupOf(RoomOf(p), BlockAt(p).day) \ {p, q} : Before(p, r) /\ Before(r, q)

\* The positions of the labBufferConflicts entries with first block p and
\* second block q.
BufferEntries(p, q) ==
    {k \in 1..Len(conflicts.labBufferConflicts) :
        /\ conflicts.labBufferConflicts[k].firstBlock = p
        /\ conflicts.labBufferConflicts[k].secondBlock = q}

\* C4: in a room whose roomType is "lab", a labBufferConflicts entry exists
\* for a pair of blocks of one room and day exactly when the two are at
\* positions i and i+1 of the order by start time and start(next) -
\* end(current) < labBufferMinutes, and its gapMinutes is start(next) -
\* end(current).
C4_LabEntryIffConsecutiveAndShortGap ==
    Done =>
        \A roomId \in LabRoomIds : \A d \in Days :
            \A p, q \in GroupOf(roomId, d) :
                p # q =>
                    /\ Cardinality(BufferEntries(p, q))
                          = IF /\ Consecutive(p, q)
                               /\ StartMin(BlockAt(q)) - EndMin(BlockAt(p)) < labBufferMinutes
                            THEN 1 ELSE 0
                    /\ \A k \in BufferEntries(p, q) :
                          conflicts.labBufferConflicts[k].gapMinutes
                             = StartMin(BlockAt(q)) - EndMin(BlockAt(p))

\* labBufferConflicts has an entry for the room and day: one that names
\* them, or one that carries a block of theirs.
HasBufferEntryFor(roomId, d) ==
    \E k \in 1..Len(conflicts.labBufferConflicts) :
        \/ /\ conflicts.labBufferConflicts[k].roomId = roomId
           /\ conflicts.labBufferConflicts[k].day = <<d>>
        \/ conflicts.labBufferConflicts[k].firstBlock \in GroupOf(roomId, d)
        \/ conflicts.labBufferConflicts[k].secondBlock \in GroupOf(roomId, d)

\* C5: with every block ending after it starts and labBufferMinutes >= 0, a
\* lab room and day without labBufferConflicts entry has start(y) - end(x) >=
\* labBufferMinutes for every two distinct blocks x, y of that room and day
\* with start(x) <= start(y).
C5_CleanReportEnsuresTurnaround ==
    Done =>
        \A roomId \in LabRoomIds : \A d \in Days :
            (/\ \A r \in Refs : StartMin(BlockAt(r)) < EndMin(BlockAt(r))
             /\ labBufferMinutes >= 0
             /\ ~HasBufferEntryFor(roomId, d))
            => \A x, y \in GroupOf(roomId, d) :
                  (x # y /\ StartMin(BlockAt(x)) <= StartMin(BlockAt(y)))
                  => StartMin(BlockAt(y)) - EndMin(BlockAt(x)) >= labBufferMinutes

(***************************************************************************)
(* C6, C7 and C8                                                           *)
(***************************************************************************)

\* The positions of the sections with a course code.
Offering(courseCode) == {x \in 1..Len(Secs) : Secs[x].courseCode = courseCode}

\* Two sections conflict: some block of one and some block of the other are
\* on the same day and overlap.
Conflict(x, y) ==
    \E p, q \in Refs :
        /\ p[1] = x /\ q[1] = y
        /\ BlockAt(p).day = BlockAt(q).day
        /\ TimesOverlap(BlockAt(p), BlockAt(q))

\* The positions i < j of a required list.
PositionPairs(required) ==
    {ij \in (1..Len(required)) \X (1..Len(required)) : ij[1] < ij[2]}

\* C6: for each pathway and each pair of required course codes A and B that
\* each have a section, the issue "A conflicts with B for all available
\* sections" is emitted if and only if every section of A conflicts with
\* every section of B.
C6_PairIssueIffAllCombinationsConflict ==
    Done =>
        \A w \in 1..Len(pathways) :
            \A ij \in PositionPairs(pathways[w].requiredCourseCodes) :
                LET courseA == pathways[w].requiredCourseCodes[ij[1]]
                    courseB == pathways[w].requiredCourseCodes[ij[2]]
                IN  (Offering(courseA) # {} /\ Offering(courseB) # {})
                    => (PairIssueEmitted(pathways[w], courseA, courseB)
                        <=> \A x \in Offering(courseA) : \A y \in Offering(courseB) :
                                Conflict(x, y))

\* Two sections of A and two of B of which one combination conflicts and
\* another is free: no issue for the pair.
C6_Witness ==
    /\ Done
    /\ \E w \in 1..Len(pathways) :
          /\ pathways[w].requiredCourseCodes[1] = "A"
          /\ pathways[w].requiredCourseCodes[2] = "B"
          /\ Cardinality(Offering("A")) = 2
          /\ Cardinality(Offering("B")) = 2
          /\ \E x \in Offering("A") : \E y \in Offering("B") : Conflict(x, y)
          /\ \E x \in Offering("A") : \E y \in Offering("B") : ~Conflict(x, y)
          /\ ~PairIssueEmitted(pathways[w], "A", "B")

\* The course codes a pathway requires.
RequiredSet(pathway) ==
    {pathway.requiredCourseCodes[i] : i \in 1..Len(pathway.requiredCourseCodes)}

\* One section can be chosen per required course with no two chosen sections
\* in conflict.
Feasible(pathway) ==
    \E choice \in [RequiredSet(pathway) -> 1..Len(Secs)] :
        /\ \A c \in RequiredSet(pathway) : Secs[choice[c]].courseCode = c
        /\ \A c, d \in RequiredSet(pathway) : c # d => ~Conflict(choice[c], choice[d])

\* C7: a pathway whose required courses each have a section and for which no
\* choice of one section per required course is free of conflicts has at
\* least one issue in pathwayIssues.
C7_InfeasiblePathwayHasIssue ==
    Done =>
        \A w \in 1..Len(pathways) :
            (/\ \A c \in RequiredSet(pathways[w]) : Offering(c) # {}
             /\ ~Feasible(pathways[w]))
            => \E k \in 1..Len(conflicts.pathwayIssues) :
                    conflicts.pathwayIssues[k].pathwayId = pathways[w].id

\* C8: no issue "A conflicts with A for all available sections" is emitted,
\* also for a pathway whose requiredCourseCodes holds a code more than once.
C8_NoIssuePairsACourseWithItself ==
    Done =>
        \A w \in 1..Len(pathways) : \A c \in RequiredSet(pathways[w]) :
            ~PairIssueEmitted(pathways[w], c, c)

(***************************************************************************)
(* C9                                                                      *)
(***************************************************************************)

\* The end of the block is not after its start.
Degenerate(ref) == EndMin(BlockAt(ref)) <= StartMin(BlockAt(ref))

\* C9: a block whose end is not after its start is in no instructorConflicts
\* entry and in no roomConflicts entry, and two sections count as conflicting
\* in the pathway check only through two blocks that both end after they
\* start.
C9_DegenerateBlockNeverOverlaps ==
    Done =>
        /\ \A r \in Refs :
              Degenerate(r) =>
                 /\ \A k \in 1..Len(conflicts.instructorConflicts) :
                       r \notin {conflicts.instructorConflicts[k].blockA,
                                 conflicts.instructorConflicts[k].blockB}
                 /\ \A k \in 1..Len(conflicts.roomConflicts) :
                       r \notin {conflicts.roomConflicts[k].blockA,
                                 conflicts.roomConflicts[k].blockB}
        /\ \A x, y \in 1..Len(Secs) :
              CountAsConflicting(Secs[x], Secs[y])
              => \E p, q \in Refs :
                    /\ p[1] = x /\ q[1] = y
                    /\ ~Degenerate(p) /\ ~Degenerate(q)
                    /\ BlockAt(p).day = BlockAt(q).day
                    /\ TimesOverlap(BlockAt(p), BlockAt(q))

(***************************************************************************)
(* C10                                                                     *)
(***************************************************************************)

\* The positions of the issues "<course>: no sections offered ..." of a
\* pathway.
NoSectionsIssues(pathway, courseCode) ==
    {k \in 1..Len(conflicts.pathwayIssues) :
        /\ conflicts.pathwayIssues[k].pathwayId = pathway.id
        /\ conflicts.pathwayIssues[k].details
              = <<courseCode, ": no sections offered in this scenario">>}

\* C10: for each pathway and each entry of its requiredCourseCodes, a "no
\* sections offered" issue is emitted if and only if no section of the
\* analysed scenario has exactly that courseCode, one issue per entry; a
\* section without meeting blocks counts as offered.
C10_NoSectionsIssueIffNoExactMatch ==
    Done =>
        \A w \in 1..Len(pathways) : \A c \in RequiredSet(pathways[w]) :
            Cardinality(NoSectionsIssues(pathways[w], c))
               = IF \E x \in 1..Len(Secs) : Secs[x].courseCode = c
                 THEN 0
                 ELSE Cardinality({i \in 1..Len(pathways[w].requiredCourseCodes) :
                                      pathways[w].requiredCourseCodes[i] = c})

\* Course "A" is offered only by sections without meeting blocks and course
\* "a" by none: an issue for "a", none for "A".
C10_Witness ==
    /\ Done
    /\ \E w \in 1..Len(pathways) :
          /\ {"A", "a"} \subseteq RequiredSet(pathways[w])
          /\ Offering("A") # {}
          /\ \A x \in Offering("A") : Len(Secs[x].meetingBlocks) = 0
          /\ Offering("a") = {}
          /\ NoSectionsIssues(pathways[w], "a") # {}
          /\ NoSectionsIssues(pathways[w], "A") = {}

(***************************************************************************)
(* C11                                                                     *)
(***************************************************************************)

\* The positions of the sections without meeting blocks.
WithoutBlocks == {x \in 1..Len(Secs) : Len(Secs[x].meetingBlocks) = 0}

\* The positions of the sections that the entries of the three conflict
\* lists refer to.
SectionsInEntries ==
    {conflicts.instructorConflicts[k].sectionA :
        k \in 1..Len(conflicts.instructorConflicts)}
    \cup {conflicts.instructorConflicts[k].sectionB :
        k \in 1..Len(conflicts.instructorConflicts)}
    \cup {conflicts.roomConflicts[k].sectionA : k \in 1..Len(conflicts.roomConflicts)}
    \cup {conflicts.roomConflicts[k].sectionB : k \in 1..Len(conflicts.roomConflicts)}
    \cup {conflicts.labBufferConflicts[k].firstSection :
        k \in 1..Len(conflicts.labBufferConflicts)}
    \cup {conflicts.labBufferConflicts[k].secondSection :
        k \in 1..Len(conflicts.labBufferConflicts)}

\* C11: a section with zero meeting blocks is in no instructorConflicts,
\* roomConflicts or labBufferConflicts entry, and when a course of a required
\* pair (A, B) has a section with zero meeting blocks, no issue "A conflicts
\* with B" is emitted for the pair.
C11_SectionWithoutBlocksNeverConflicts ==
    Done =>
        /\ WithoutBlocks \cap SectionsInEntries = {}
        /\ \A w \in 1..Len(pathways) : \A courseA, courseB \in RequiredSet(pathways[w]) :
              ((Offering(courseA) \cup Offering(courseB)) \cap WithoutBlocks # {})
              => ~PairIssueEmitted(pathways[w], courseA, courseB)

\* Course "A" has a section without blocks and a section in conflict with
\* the one section of course "B": no issue for the pair.
C11_Witness ==
    /\ Done
    /\ \E w \in 1..Len(pathways) :
          /\ {"A", "B"} \subseteq RequiredSet(pathways[w])
          /\ Offering("A") \cap WithoutBlocks # {}
          /\ Offering("B") # {}
          /\ \E x \in Offering("A") : \A y \in Offering("B") : Conflict(x, y)
          /\ ~PairIssueEmitted(pathways[w], "A", "B")
          /\ ~PairIssueEmitted(pathways[w], "B", "A")

(***************************************************************************)
(* C12                                                                     *)
(***************************************************************************)

\* C12: two blocks at positions i and i+1 of the start-time order of a lab
\* room and day that overlap in time have a roomConflicts entry and a
\* labBufferConflicts entry for that pair, the latter with a negative
\* gapMinutes.
C12_OverlappingLabPairInBothLists ==
    Done =>
        \A roomId \in LabRoomIds : \A d \in Days :
            \A p, q \in GroupOf(roomId, d) :
                (Consecutive(p, q) /\ TimesOverlap(BlockAt(p), BlockAt(q)))
                => /\ EntriesOfPair(conflicts.roomConflicts, p, q) # {}
                   /\ \E k \in BufferEntries(p, q) :
                         conflicts.labBufferConflicts[k].gapMinutes < 0

(***************************************************************************)
(* C13                                                                     *)
(***************************************************************************)

\* The blocks that the labBufferConflicts entries carry.
BlocksInBufferEntries ==
    {conflicts.labBufferConflicts[k].firstBlock :
        k \in 1..Len(conflicts.labBufferConflicts)}
    \cup {conflicts.labBufferConflicts[k].secondBlock :
        k \in 1..Len(conflicts.labBufferConflicts)}

\* C13: a block in a room whose roomType is not "lab", or whose roomId is
\* the id of no room, is in no labBufferConflicts entry, whatever
\* labBufferMinutes and the other blocks of the room.
C13_OnlyLabRoomsHaveBufferEntries ==
    Done =>
        \A r \in Refs :
            (InRoom(r) /\ RoomOf(r) \notin LabRoomIds) => r \notin BlocksInBufferEntries

(***************************************************************************)
(* C14                                                                     *)
(***************************************************************************)

\* The blocks that the roomConflicts entries carry.
BlocksInRoomEntries ==
    {conflicts.roomConflicts[k].blockA : k \in 1..Len(conflicts.roomConflicts)}
    \cup {conflicts.roomConflicts[k].blockB : k \in 1..Len(conflicts.roomConflicts)}

\* C14: a block whose roomId is absent or empty is in no roomConflicts entry
\* and in no labBufferConflicts entry, and is in an instructorConflicts entry
\* with every block of the same instructor and day that it overlaps.
C14_BlockWithoutRoomOnlyInInstructorConflicts ==
    Done =>
        /\ \A r \in Refs :
              ~InRoom(r) => r \notin BlocksInRoomEntries \cup BlocksInBufferEntries
        /\ \A pq \in BlockPairs :
              (/\ ~InRoom(pq[1]) \/ ~InRoom(pq[2])
               /\ InstructorOf(pq[1]) = InstructorOf(pq[2])
               /\ BlockAt(pq[1]).day = BlockAt(pq[2]).day
               /\ TimesOverlap(BlockAt(pq[1]), BlockAt(pq[2])))
              => EntriesOfPair(conflicts.instructorConflicts, pq[1], pq[2]) # {}

\* Two overlapping blocks of one instructor and day with the empty string
\* as roomId, and a third without roomId: three instructorConflicts entries
\* and no roomConflicts or labBufferConflicts entry.
C14_Witness ==
    /\ Done
    /\ \E p, q, r \in Refs :
          /\ "roomId" \in DOMAIN BlockAt(p) /\ BlockAt(p).roomId = <<>>
          /\ "roomId" \in DOMAIN BlockAt(q) /\ BlockAt(q).roomId = <<>>
          /\ "roomId" \notin DOMAIN BlockAt(r)
          /\ p # q
          /\ BlockAt(p).day = BlockAt(q).day /\ BlockAt(q).day = BlockAt(r).day
          /\ TimesOverlap(BlockAt(p), BlockAt(q))
          /\ TimesOverlap(BlockAt(p), BlockAt(r))
          /\ TimesOverlap(BlockAt(q), BlockAt(r))
    /\ Len(conflicts.instructorConflicts) = 3
    /\ conflicts.roomConflicts = <<>>
    /\ conflicts.labBufferConflicts = <<>>

(***************************************************************************)
(* C15                                                                     *)
(***************************************************************************)

\* C15: conflictSectionIds is exactly the set of the ids of the sections
\* that are sectionA or sectionB of an instructorConflicts or roomConflicts
\* entry or firstSection or secondSection of a labBufferConflicts entry; a
\* section that only a pathway issue concerns is not in it.
C15_ConflictSectionIdsAreTheSectionsInEntries ==
    Done =>
        /\ conflictSectionIds = {Secs[x].id : x \in SectionsInEntries}
        /\ \A x \in 1..Len(Secs) :
              (\A y \in SectionsInEntries : Secs[y].id # Secs[x].id)
              => Secs[x].id \notin conflictSectionIds

\* The sections of courses "A" and "B" conflict and the issue for the pair
\* is emitted, with different instructors and rooms: conflictSectionIds is
\* empty.
C15_Witness ==
    /\ Done
    /\ Len(Secs) = 2
    /\ Conflict(1, 2)
    /\ \E w \in 1..Len(pathways) : PairIssueEmitted(pathways[w], "A", "B")
    /\ SectionsInEntries = {}
    /\ conflictSectionIds = {}

\* Two sections that are in a labBufferConflicts entry only.
C15_BufferWitness ==
    /\ Done
    /\ conflicts.instructorConflicts = <<>>
    /\ conflicts.roomConflicts = <<>>
    /\ Len(conflicts.labBufferConflicts) = 1
    /\ Cardinality(conflictSectionIds) = 2

(***************************************************************************)
(* C16                                                                     *)
(***************************************************************************)

\* The sections of the active scenario, in the state of App.
ActiveSections == {x \in 1..Len(sections) : sections[x].scenarioId = activeScenarioId}

\* C16: after any sequence of add-section, remove-section, create-scenario
\* and select-scenario operations, every section that an instructorConflicts,
\* roomConflicts or labBufferConflicts entry refers to has the scenarioId of
\* the active scenario, every id in conflictSectionIds is the id of a section
\* of the active scenario, and a required course without a section in the
\* active scenario has its "no sections offered" issue and is in no pair
\* issue, whatever the other scenarios offer.
C16_ScenarioIsolation ==
    /\ \A x \in SectionsInEntries : Secs[x].scenarioId = activeScenarioId
    /\ \A id \in conflictSectionIds : \E x \in ActiveSections : sections[x].id = id
    /\ \A w \in 1..Len(pathways) : \A c \in RequiredSet(pathways[w]) :
          (\A x \in ActiveSections : sections[x].courseCode # c)
          => /\ NoSectionsIssues(pathways[w], c) # {}
             /\ \A d \in RequiredSet(pathways[w]) :
                   /\ ~PairIssueEmitted(pathways[w], c, d)
                   /\ ~PairIssueEmitted(pathways[w], d, c)

\* A created scenario is active and holds an added section of PHYS 210 at
\* the time, in the room and with the instructor of PHYS210-01 and
\* PHYS211-01, which are still there in the first scenario: no entry, an
\* empty conflictSectionIds, and PHYS 211 has no section offered.
C16_Witness ==
    /\ activeScenarioId # "fall-2024-draft-a"
    /\ \E x, y \in 1..Len(sections) :
          /\ sections[x].id = "PHYS210-01" /\ sections[y].id = "PHYS211-01"
          /\ sections[x].scenarioId # activeScenarioId
          /\ sections[y].scenarioId # activeScenarioId
    /\ \E x \in ActiveSections :
          /\ sections[x].courseCode = "PHYS 210"
          /\ sections[x].instructorId = "physics-faculty"
          /\ sections[x].meetingBlocks # <<>>
    /\ SectionsInEntries = {}
    /\ conflictSectionIds = {}
    /\ NoSectionsIssues(pathways[2], "PHYS 211") # {}
    /\ NoSectionsIssues(pathways[2], "PHYS 210") = {}

\* The first scenario is active again after a visit to a created one: the
\* entries of PHYS210-01 and PHYS211-01 are back.
C16_EntriesWitness ==
    /\ activeScenarioId = "fall-2024-draft-a"
    /\ Len(scenarios) = 2
    /\ \E x \in 1..Len(sections) : sections[x].scenarioId # activeScenarioId
    /\ conflictSectionIds = {"PHYS210-01", "PHYS211-01"}

(***************************************************************************)
(* C17                                                                     *)
(***************************************************************************)

C17_OrderWitness ==
    /\ pc = "again"
    /\ Len(conflicts.roomConflicts) = 3

(***************************************************************************)
(* C18                                                                     *)
(***************************************************************************)

KnownInstructorIds == {instructors[i].id : i \in 1..Len(instructors)}

KnownRoomIds == {rooms[i].id : i \in 1..Len(rooms)}

\* C19: overlapping blocks of one day whose sections have an instructorId
\* that is the id of no instructor are reported in instructorConflicts with
\* the instructorId as instructorName, and overlapping blocks of one day in
\* a room whose roomId is the id of no room are reported in roomConflicts
\* with the roomId as roomName.
C19_UnresolvedReferencesShowRawId ==
    Done =>
        /\ \A pq \in BlockPairs :
              (/\ InstructorOf(pq[1]) = InstructorOf(pq[2])
               /\ InstructorOf(pq[1]) \notin KnownInstructorIds
               /\ BlockAt(pq[1]).day = BlockAt(pq[2]).day
               /\ TimesOverlap(BlockAt(pq[1]), BlockAt(pq[2])))
              => /\ EntriesOfPair(conflicts.instructorConflicts, pq[1], pq[2]) # {}
                 /\ \A k \in EntriesOfPair(conflicts.instructorConflicts, pq[1], pq[2]) :
                       conflicts.instructorConflicts[k].instructorName
                          = InstructorOf(pq[1])
        /\ \A pq \in BlockPairs :
              (/\ SameRoomAndDay(pq[1], pq[2])
               /\ RoomOf(pq[1]) \notin KnownRoomIds
               /\ TimesOverlap(BlockAt(pq[1]), BlockAt(pq[2])))
              => /\ EntriesOfPair(conflicts.roomConflicts, pq[1], pq[2]) # {}
                 /\ \A k \in EntriesOfPair(conflicts.roomConflicts, pq[1], pq[2]) :
                       conflicts.roomConflicts[k].roomName = RoomOf(pq[1])

(***************************************************************************)
(* C20                                                                     *)
(***************************************************************************)

\* C20: with an empty sections list and an empty pathways list the report
\* has empty instructorConflicts, roomConflicts, labBufferConflicts and
\* pathwayIssues, and conflictSectionIds is empty, for any instructors, rooms
\* and labBufferMinutes.
C20_EmptyInputsGiveEmptyReport ==
    (Done /\ Secs = <<>> /\ pathways = <<>>)
    => /\ conflicts.instructorConflicts = <<>>
       /\ conflicts.roomConflicts = <<>>
       /\ conflicts.labBufferConflicts = <<>>
       /\ conflicts.pathwayIssues = <<>>
       /\ conflictSectionIds = {}

\* The analysis of no sections and no pathways with a lab room, an
\* instructor and a buffer of 0 minutes.
C20_Witness ==
    /\ Done
    /\ Secs = <<>>
    /\ pathways = <<>>
    /\ LabRoomIds # {}
    /\ instructors # <<>>
    /\ labBufferMinutes = 0
    /\ conflicts = EmptyReport

\* The same without instructors and rooms.
C20_NothingWitness ==
    /\ Done
    /\ Secs = <<>> /\ pathways = <<>> /\ instructors = <<>> /\ rooms = <<>>
    /\ conflicts = EmptyReport

(***************************************************************************)
(* C21                                                                     *)
(***************************************************************************)

\* The unordered pairs of blocks that the entries of a list report, each
\* block named by the id of its section and its day, times and room.
ReportedBlockPairs(list, secs) ==
    {{<<secs[list[k].sectionA].id,
        secs[list[k].blockA[1]].meetingBlocks[list[k].blockA[2]]>>,
      <<secs[list[k].sectionB].id,
        secs[list[k].blockB[1]].meetingBlocks[list[k].blockB[2]]>>} :
        k \in 1..Len(list)}

\* The issues "A conflicts with B for all available sections" of a list.
PairIssuesIn(issues) ==
    {issues[k] : k \in {j \in 1..Len(issues) :
        Len(issues[j].details) = 4 /\ issues[j].details[2] = " conflicts with "}}

\* C21: when two sections, or the two blocks of a section, change places in
\* the input, the unordered pairs of blocks reported in instructorConflicts
\* and in roomConflicts and the pathway pair issues emitted are the same as
\* before.
C21_ReorderingKeepsReportedPairs ==
    [][(pc = "done" /\ pc' = "reordered") =>
          /\ ReportedBlockPairs(conflicts'.instructorConflicts, sectionsForScenario')
                = ReportedBlockPairs(conflicts.instructorConflicts, sectionsForScenario)
          /\ ReportedBlockPairs(conflicts'.roomConflicts, sectionsForScenario')
                = ReportedBlockPairs(conflicts.roomConflicts, sectionsForScenario)
          /\ PairIssuesIn(conflicts'.pathwayIssues)
                = PairIssuesIn(conflicts.pathwayIssues)]_vars

\* Two sections analysed in the opposite order, "s2" before "s1", with an
\* instructor conflict, a room conflict and a pathway pair issue.
C21_Witness ==
    /\ pc = "reordered"
    /\ Len(Secs) = 2
    /\ Secs[1].id = "s2" /\ Secs[2].id = "s1"
    /\ conflicts.instructorConflicts # <<>>
    /\ conflicts.roomConflicts # <<>>
    /\ PairIssuesIn(conflicts.pathwayIssues) # {}

\* The two blocks of one section analysed in the opposite order, reported as
\* overlapping.
C21_BlocksWitness ==
    /\ pc = "reordered"
    /\ Len(Secs) = 1
    /\ Secs[1].meetingBlocks[1].startTime # Secs[1].meetingBlocks[2].startTime
    /\ conflicts.instructorConflicts # <<>>

(***************************************************************************)
(* C22                                                                     *)
(***************************************************************************)

\* Block p comes before block q in the input: an earlier section, or an
\* earlier block of the same section.
EarlierInInput(p, q) == p[1] < q[1] \/ (p[1] = q[1] /\ p[2] < q[2])

\* C22: in every labBufferConflicts entry start(firstBlock) <=
\* start(secondBlock) and in every roomConflicts entry start(blockA) <=
\* start(blockB), and when the two starts are equal the first/A block is the
\* one that comes earlier in the sections input.
C22_EntriesInStartOrderTiesInInputOrder ==
    Done =>
        /\ \A k \in 1..Len(conflicts.roomConflicts) :
              LET p == conflicts.roomConflicts[k].blockA
                  q == conflicts.roomConflicts[k].blockB
              IN  /\ StartMin(BlockAt(p)) <= StartMin(BlockAt(q))
                  /\ StartMin(BlockAt(p)) = StartMin(BlockAt(q)) => EarlierInInput(p, q)
        /\ \A k \in 1..Len(conflicts.labBufferConflicts) :
              LET p == conflicts.labBufferConflicts[k].firstBlock
                  q == conflicts.labBufferConflicts[k].secondBlock
              IN  /\ StartMin(BlockAt(p)) <= StartMin(BlockAt(q))
                  /\ StartMin(BlockAt(p)) = StartMin(BlockAt(q)) => EarlierInInput(p, q)

\* Three sections in one lab room and day: the first two start at the same
\* minute and are reported in input order in both lists, the third starts
\* before them and is the A block of its room conflicts.
C22_Witness ==
    /\ Done
    /\ Len(Secs) = 3
    /\ StartMin(BlockAt(<<1, 1>>)) = StartMin(BlockAt(<<2, 1>>))
    /\ StartMin(BlockAt(<<3, 1>>)) < StartMin(BlockAt(<<1, 1>>))
    /\ \E k \in 1..Len(conflicts.roomConflicts) :
          /\ conflicts.roomConflicts[k].blockA = <<1, 1>>
          /\ conflicts.roomConflicts[k].blockB = <<2, 1>>
    /\ \E k \in 1..Len(conflicts.labBufferConflicts) :
          /\ conflicts.labBufferConflicts[k].firstBlock = <<1, 1>>
          /\ conflicts.labBufferConflicts[k].secondBlock = <<2, 1>>
    /\ \E k \in 1..Len(conflicts.roomConflicts) :
          /\ conflicts.roomConflicts[k].blockA = <<3, 1>>
          /\ conflicts.roomConflicts[k].blockB = <<1, 1>>

(***************************************************************************)
(* C23                                                                     *)
(***************************************************************************)

\* The course codes that the issues "A conflicts with B for all available
\* sections" of the report name.
CoursesInPairIssues ==
    UNION {{conflicts.pathwayIssues[k].details[1], conflicts.pathwayIssues[k].details[3]} :
            k \in {j \in 1..Len(conflicts.pathwayIssues) :
                      /\ Len(conflicts.pathwayIssues[j].details) = 4
                      /\ conflicts.pathwayIssues[j].details[2] = " conflicts with "}}

\* C23: a required course code with no section in the analysed scenario is
\* named in no issue "A conflicts with B for all available sections"; the
\* only issues it yields are its "no sections offered" issues.
C23_UnofferedCourseOnlyInNoSectionsIssue ==
    Done =>
        \A w \in 1..Len(pathways) :
            \A i \in 1..Len(pathways[w].requiredCourseCodes) :
                LET course == pathways[w].requiredCourseCodes[i]
                IN  Offering(course) = {} =>
                        /\ course \notin CoursesInPairIssues
                        /\ NoSectionsIssues(pathways[w], course) # {}

\* Courses "A" and "B" have sections that all clash and "a" has none: the
\* report names "A" and "B" in a pair issue and "a" in a "no sections
\* offered" issue only.
C23_Witness ==
    /\ Done
    /\ \E w \in 1..Len(pathways) :
          /\ pathways[w].requiredCourseCodes = <<"A", "B", "a">>
          /\ Offering("a") = {}
          /\ PairIssueEmitted(pathways[w], "A", "B")
          /\ NoSectionsIssues(pathways[w], "a") # {}
          /\ "a" \notin CoursesInPairIssues

(***************************************************************************)
(* C24                                                                     *)
(***************************************************************************)

\* C24: an analysis that differs from the one before only in
\* labBufferMinutes, or only in the roomType of a room, has the same
\* instructorConflicts, roomConflicts and pathwayIssues; only
\* labBufferConflicts can differ.
C24_BufferAndRoomTypeTouchOnlyLabBufferConflicts ==
    [][(/\ pc = "done" /\ pc' = "varied"
        /\ sectionsForScenario' = sectionsForScenario
        /\ instructors' = instructors
        /\ pathways' = pathways
        /\ \/ rooms' = rooms
           \/ /\ labBufferMinutes' = labBufferMinutes
              /\ Len(rooms') = Len(rooms)
              /\ \A r \in 1..Len(rooms) : /\ rooms'[r].id = rooms[r].id
                                           /\ rooms'[r].name = rooms[r].name)
       => /\ conflicts'.instructorConflicts = conflicts.instructorConflicts
          /\ conflicts'.roomConflicts = conflicts.roomConflicts
          /\ conflicts'.pathwayIssues = conflicts.pathwayIssues]_vars

\* After the buffer was set to 0: blocks 13:00-16:15 and 16:25-19:25 in lab
\* room "a" that no longer have a buffer entry, next to an instructor
\* conflict, a room conflict and a pathway issue.
C24_Witness ==
    /\ pc = "varied"
    /\ labBufferMinutes = 0
    /\ conflicts.instructorConflicts # <<>>
    /\ conflicts.roomConflicts # <<>>
    /\ conflicts.pathwayIssues # <<>>
    /\ \E p, q \in Refs :
          /\ SameRoomAndDay(p, q)
          /\ RoomOf(p) = RoomA /\ RoomA \in LabRoomIds
          /\ StartMin(BlockAt(q)) - EndMin(BlockAt(p)) = 10
          /\ \A k \in 1..Len(conflicts.labBufferConflicts) :
                conflicts.labBufferConflicts[k].secondBlock # q

\* After lab room "a" became a virtual room: its overlapping blocks are in
\* roomConflicts and instructorConflicts and no buffer entry is left.
C24_RoomTypeWitness ==
    /\ pc = "varied"
    /\ \E r \in 1..Len(rooms) : rooms[r].id = RoomA /\ rooms[r].roomType = "virtual"
    /\ \A x \in 1..Len(Secs) : Secs[x].meetingBlocks[1].roomId = RoomA
    /\ conflicts.instructorConflicts # <<>>
    /\ conflicts.roomConflicts # <<>>
    /\ conflicts.pathwayIssues # <<>>
    /\ conflicts.labBufferConflicts = <<>>

(***************************************************************************)
(* C25                                                                     *)
(***************************************************************************)

\* Block q is in a lab room and starts less than labBufferMinutes after the
\* end of another block p of the same room and day that starts no later.
TooSoonAfter(p, q) ==
    /\ p # q
    /\ SameRoomAndDay(p, q)
    /\ RoomOf(q) \in LabRoomIds
    /\ StartMin(BlockAt(p)) <= StartMin(BlockAt(q))
    /\ StartMin(BlockAt(q)) - EndMin(BlockAt(p)) < labBufferMinutes

\* C25: every section with a block in a lab room that starts less than
\* labBufferMinutes after the end of another block of the same room and day,
\* the other block starting no later, is in conflictSectionIds, also when a
\* third block sits between the two in start-time order.
C25_SectionTooSoonAfterAnotherIsHighlighted ==
    Done =>
        \A p, q \in Refs :
            TooSoonAfter(p, q) => Secs[q[1]].id \in conflictSectionIds

(***************************************************************************)
(* C26                                                                     *)
(***************************************************************************)

\* The name under which the room of a block is reported: the name of the
\* room with the block's roomId, or the roomId when there is no such room.
NameOfRoomOf(ref) ==
    LET known == {r \in 1..Len(rooms) : rooms[r].id = RoomOf(ref)}
    IN  IF known = {} THEN RoomOf(ref)
        ELSE rooms[CHOOSE r \in known : \A k \in known : r <= k].name

\* C26: in every roomConflicts and labBufferConflicts entry the roomId and
\* the day are those of both blocks of the entry, the roomName is the name of
\* the room with that roomId, and a labBufferConflicts entry is about blocks
\* of a room whose roomType is "lab"; for every room identifier, those that
\* contain "__" included.
C26_EntryRoomAndDayAreThoseOfItsBlocks ==
    Done =>
        /\ \A k \in 1..Len(conflicts.roomConflicts) :
              LET e == conflicts.roomConflicts[k]
              IN  /\ e.roomId = RoomOf(e.blockA) /\ e.roomId = RoomOf(e.blockB)
                  /\ e.day = <<BlockAt(e.blockA).day>>
                  /\ e.day = <<BlockAt(e.blockB).day>>
                  /\ e.roomName = NameOfRoomOf(e.blockA)
        /\ \A k \in 1..Len(conflicts.labBufferConflicts) :
              LET e == conflicts.labBufferConflicts[k]
              IN  /\ e.roomId = RoomOf(e.firstBlock) /\ e.roomId = RoomOf(e.secondBlock)
                  /\ e.day = <<BlockAt(e.firstBlock).day>>
                  /\ e.day = <<BlockAt(e.secondBlock).day>>
                  /\ e.roomName = NameOfRoomOf(e.firstBlock)
                  /\ RoomOf(e.firstBlock) \in LabRoomIds

(***************************************************************************)
(* C27                                                                     *)
(***************************************************************************)

\* A student cannot attend both sections: a block of one and a block of the
\* other are on the same day and share some time, which takes two blocks
\* that each end after they start.
TimeClash(x, y) ==
    \E p, q \in Refs :
        /\ p[1] = x /\ q[1] = y
        /\ ~Degenerate(p) /\ ~Degenerate(q)
        /\ BlockAt(p).day = BlockAt(q).day
        /\ TimesOverlap(BlockAt(p), BlockAt(q))

\* One section can be chosen per required course so that no two chosen
\* sections clash.
Attendable(pathway) ==
    \E choice \in [RequiredSet(pathway) -> 1..Len(Secs)] :
        /\ \A c \in RequiredSet(pathway) : Secs[choice[c]].courseCode = c
        /\ \A c, d \in RequiredSet(pathway) : c # d => ~TimeClash(choice[c], choice[d])

\* C27: when the issue "A conflicts with B for all available sections" is
\* emitted for a pathway, with A and B distinct course codes, every section
\* of A clashes in time with every section of B, and so the pathway has no
\* choice of one section per required course without a clash.
C27_PairIssueMeansNoAttendableChoice ==
    Done =>
        \A w \in 1..Len(pathways) :
            \A ij \in PositionPairs(pathways[w].requiredCourseCodes) :
                LET courseA == pathways[w].requiredCourseCodes[ij[1]]
                    courseB == pathways[w].requiredCourseCodes[ij[2]]
                IN  (courseA # courseB /\ PairIssueEmitted(pathways[w], courseA, courseB))
                    => /\ \A x \in Offering(courseA) : \A y \in Offering(courseB) :
                              TimeClash(x, y)
                       /\ ~Attendable(pathways[w])

(***************************************************************************)
(* C28                                                                     *)
(***************************************************************************)

\* C28: two blocks of one section on the same day with startA < endB and
\* startB < endA are reported in an instructorConflicts entry whose sectionA
\* and sectionB are that section, and in such a roomConflicts entry when they
\* are in the same room, and the id of the section is in conflictSectionIds.
C28_BlocksOfOneSectionAreCompared ==
    Done =>
        \A p, q \in Refs :
            (/\ p[1] = q[1] /\ p[2] < q[2]
             /\ BlockAt(p).day = BlockAt(q).day
             /\ TimesOverlap(BlockAt(p), BlockAt(q)))
            => /\ \E k \in EntriesOfPair(conflicts.instructorConflicts, p, q) :
                     /\ conflicts.instructorConflicts[k].sectionA = p[1]
                     /\ conflicts.instructorConflicts[k].sectionB = p[1]
               /\ SameRoomAndDay(p, q)
                     => \E k \in EntriesOfPair(conflicts.roomConflicts, p, q) :
                           /\ conflicts.roomConflicts[k].sectionA = p[1]
                           /\ conflicts.roomConflicts[k].sectionB = p[1]
               /\ Secs[p[1]].id \in conflictSectionIds

\* The only section has two overlapping blocks on one day, without rooms:
\* one instructorConflicts entry pairs the section with itself and its id is
\* the one id of conflictSectionIds.
C28_Witness ==
    /\ Done
    /\ Len(Secs) = 1
    /\ Refs = {<<1, 1>>, <<1, 2>>}
    /\ ~InRoom(<<1, 1>>) /\ ~InRoom(<<1, 2>>)
    /\ ~Degenerate(<<1, 1>>) /\ ~Degenerate(<<1, 2>>)
    /\ Len(conflicts.instructorConflicts) = 1
    /\ conflicts.instructorConflicts[1].sectionA = 1
    /\ conflicts.instructorConflicts[1].sectionB = 1
    /\ conflicts.roomConflicts = <<>>
    /\ conflictSectionIds = {Secs[1].id}

\* The same with both blocks in one room: the section is paired with itself
\* in roomConflicts as well.
C28_RoomWitness ==
    /\ Done
    /\ Len(Secs) = 1
    /\ Refs = {<<1, 1>>, <<1, 2>>}
    /\ SameRoomAndDay(<<1, 1>>, <<1, 2>>)
    /\ ~Degenerate(<<1, 1>>) /\ ~Degenerate(<<1, 2>>)
    /\ \E k \in 1..Len(conflicts.roomConflicts) :
          /\ conflicts.roomConflicts[k].sectionA = 1
          /\ conflicts.roomConflicts[k].sectionB = 1
    /\ conflictSectionIds = {Secs[1].id}

(***************************************************************************)
(* C29                                                                     *)
(***************************************************************************)

\* C29: after every sequence of create-scenario, select-scenario, import,
\* reset and startup hydration, activeScenarioId is the id of a scenario of
\* the scenarios list, also after a payload with an empty scenarios list was
\* imported or loaded.
C29_ActiveScenarioIsInTheList ==
    \E x \in 1..Len(scenarios) : scenarios[x].id = activeScenarioId

(***************************************************************************)
(* C30                                                                     *)
(***************************************************************************)

\* The six persisted states of App, and the same six fields of a payload.
PersistedStates ==
    <<scenarios, sections, instructors, rooms, pathways, labBufferMinutes>>

PersistedFields(payload) ==
    <<payload.scenarios, payload.sections, payload.instructors, payload.rooms,
      payload.pathways, payload.labBufferMinutes>>

\* The storage holds a saved state that the start accepts.
ValidSavedState ==
    /\ storage.kind = "json"
    /\ {"scenarios", "sections", "instructors", "rooms", "pathways", "labBufferMinutes"}
          \subseteq DOMAIN storage.value

\* C30: the storage is written only when hydrated is true; when the page
\* loads with a valid saved state, the effects of the first render leave the
\* storage as it is and put the saved state into the app state, and the first
\* write after that stores the loaded state, so the stored scenarios,
\* sections, instructors, rooms, pathways and buffer are still the saved ones
\* and not the built-in sample data.
C30_NoWriteBeforeHydration ==
    [][/\ storage' # storage => hydrated
       /\ (pc = "mounted" /\ ValidSavedState)
             => /\ storage' = storage
                /\ PersistedStates' = PersistedFields(storage.value)
       /\ (pc = "hydrated" /\ ValidSavedState)
             => /\ PersistedStates = PersistedFields(storage.value)
                /\ storage'.kind = "json"
                /\ PersistedFields(storage'.value) = PersistedFields(storage.value)]_vars

\* The saved state of the earlier session has been loaded and written back:
\* the storage holds its scenario, its section and its buffer of 45 minutes
\* under the current version number.
C30_Witness ==
    /\ pc = "done"
    /\ hydrated
    /\ storage.kind = "json"
    /\ storage.value.version = 1
    /\ storage.value.labBufferMinutes = 45
    /\ storage.value.scenarios = <<[id |-> "spring-2025", name |-> "Draft",
                                    term |-> "Spring 2025"]>>
    /\ Len(storage.value.sections) = 1
    /\ PersistedStates = PersistedFields(storage.value)

\* The same saved state loaded and not yet written: the storage still holds
\* the text of the earlier session.
C30_LoadedWitness ==
    /\ pc = "hydrated"
    /\ hydrated
    /\ storage.kind = "json"
    /\ storage.value.version = 0
    /\ activeScenarioId = "spring-2025"
    /\ PersistedStates = PersistedFields(storage.value)

====
